---------------------------- MODULE Spec2Model ----------------------------
(***************************************************************************)
(* dsa-lib: array-backed priority queues.                                  *)
(*   dsa::BinaryHeap   (src/heaps/binary_heap/binary_heap.hpp)             *)
(*   dsa::IntervalHeap (src/heaps/interval_heap/interval_heap.hpp)         *)
(* and the differential harnesses of the two test files; and SharedVector  *)
(* (src/containers/shared_vector/example.hpp) with its test.               *)
(*                                                                         *)
(* A heap object is a record [data, comp]: data is the backing std::vector *)
(* (a TLA+ sequence; C++ index i is TLA+ index i + 1) and comp names the   *)
(* strict weak order held in _comp.  Elements are small integers, so a     *)
(* std::move of an element is a copy.                                      *)
(***************************************************************************)
EXTENDS Integers, Sequences, FiniteSets, TLC

(***************************************************************************)
(* Bounds of the model.                                                    *)
(***************************************************************************)
MaxLen == 8          \* most elements the heaps of one scenario hold together
MaxVal == 3          \* elements are drawn from 1..MaxVal
MaxInput == 7        \* longest vector handed to a constructor
MaxElems == 7        \* max_elems of test_corectness
MaxSwapLen == 3      \* longest heap of the two that are swapped
MaxCount == 2        \* most elements of one array of a SharedVector that are written

Values == 1..MaxVal
Comparators == {"less", "greater"}

\* size_t arithmetic wraps.  The real modulus is 2^64; the model checker's
\* integers are 32 bits wide, so the model wraps at 2^30, far above every
\* index that the bounds admit.
SizeWrap == 1073741824

USub(a, b) == (a - b) % SizeWrap

\* Compare::operator(): std::less or the reversed order std::greater
\* a comparison that ignores the comparator object and uses the natural order
Comp_natural(c, a, b) == a < b

Comp(c, a, b) == IF c = "less" THEN a < b ELSE a > b

\* _data[i]; an index outside [0, size) is undefined behaviour, which Touch
\* puts on record, and what such a read yields is of no account
At(d, i) == IF 0 <= i /\ i < Len(d) THEN d[i + 1] ELSE 0
\* _data[i] = v
Put(d, i, v) == [d EXCEPT ![i + 1] = v]
\* _data.pop_back()
\* pop_back that leaves the vector as it is
PopBack_noop(d) == d

PopBack(d) == SubSeq(d, 1, Len(d) - 1)
\* _data.back()
Back(d) == d[Len(d)]

\* every std::vector<T> of at most n elements
RECURSIVE SeqsUpTo(_)
SeqsUpTo(n) ==
    IF n = 0 THEN {<< >>}
    ELSE LET S == SeqsUpTo(n - 1)
         IN  S \cup {Append(s, v) : s \in {t \in S : Len(t) = n - 1}, v \in Values}

\* a multiset of elements is written as its non-decreasing sequence
RECURSIVE SortedInsert(_, _)
SortedInsert(s, v) ==
    IF s = << >> THEN << v >>
    ELSE IF v <= Head(s) THEN << v >> \o s
    ELSE << Head(s) >> \o SortedInsert(Tail(s), v)

RECURSIVE MultisetOf(_)
MultisetOf(d) ==
    IF d = << >> THEN << >> ELSE SortedInsert(MultisetOf(Tail(d)), Head(d))

Reverse(s) == [i \in 1..Len(s) |-> s[Len(s) + 1 - i]]

(***************************************************************************)
(* dsa::BinaryHeap                                                         *)
(***************************************************************************)
ROOT == 0

BH_get_parent(idx) == USub(idx, 1) \div 2
BH_get_left(idx) == 2 * idx + 1

BH_empty(h) == Len(h.data) = 0
BH_size(h) == Len(h.data)
BH_top(h) == At(h.data, ROOT)
BH_min(h) == BH_top(h)

\* Every pass through a loop body is counted against a budget of passes and
\* the move of the loop's index is put on record, so that a loop that would
\* not end shows as an exhausted budget.  Budget(d): more passes than any
\* loop over d can make.
Budget(d) == Len(d) + 1

\* the record of the loops run so far: ok = no budget was exhausted,
\* mono = every bubble-up pass lowered its index and every bubble-down or
\* hole-moving pass raised it, cntOwn = every heapify counter moved strictly
\* in the direction of its own for statement, cntDown = every heapify counter
\* moved strictly down, inRange = every _data[i] read or written had
\* 0 <= i < size
NoLoops ==
    [ok |-> TRUE, mono |-> TRUE, cntOwn |-> TRUE, cntDown |-> TRUE, inRange |-> TRUE,
     rec |-> TRUE]

\* the report of a call that nobody watches: nothing is put on record
NoReport == [NoLoops EXCEPT !.rec = FALSE]

\* the elements _data[i], i in S, of the vector d are read or written
Touch(r, d, S) ==
    IF ~r.rec \/ \A i \in S : 0 <= i /\ i < Len(d) THEN r ELSE [r EXCEPT !.inRange = FALSE]

\* one pass took the index of a bubble-up loop ("up"), of a bubble-down or
\* hole-moving loop ("down") or the counter of a heapify for statement
\* ("count_down", "count_up") from `from` to `to`
Pass(r, from, to, dir) ==
    CASE ~r.rec -> r
      [] r.rec /\ dir = "up" -> [r EXCEPT !.mono = @ /\ to < from]
      [] r.rec /\ dir = "down" -> [r EXCEPT !.mono = @ /\ to > from]
      [] r.rec /\ dir = "count_down" ->
            [r EXCEPT !.cntOwn = @ /\ to < from, !.cntDown = @ /\ to < from]
      [] r.rec /\ dir = "count_up" ->
            [r EXCEPT !.cntOwn = @ /\ to > from, !.cntDown = @ /\ to < from]

\* the while loop of bubble_up without the test idx > ROOT in front of the
\* comparison with the parent
RECURSIVE BH_bubble_up_loop_no_root_guard(_, _, _, _, _, _, _)
BH_bubble_up_loop_no_root_guard(c, d, idx, par, cur, budget, r) ==
    LET rt == Touch(r, d, {par})
    IN  IF Comp(c, cur, At(d, par))
        THEN IF budget = 0
             THEN [data |-> d, r |-> [rt EXCEPT !.ok = FALSE]]
             ELSE BH_bubble_up_loop_no_root_guard(c, Put(d, idx, At(d, par)), par,
                                                  BH_get_parent(par), cur, budget - 1,
                                                  Pass(Touch(rt, d, {idx, par}), idx, par, "up"))
        ELSE [data |-> Put(d, idx, cur), r |-> Touch(rt, d, {idx})]

\* the while loop of bubble_up; cur holds the element that is moving up
RECURSIVE BH_bubble_up_loop(_, _, _, _, _, _, _)
BH_bubble_up_loop(c, d, idx, par, cur, budget, r) ==
    LET rt == IF idx > ROOT THEN Touch(r, d, {par}) ELSE r
    IN  IF idx > ROOT /\ Comp(c, cur, At(d, par))
        THEN IF budget = 0
             THEN [data |-> d, r |-> [rt EXCEPT !.ok = FALSE]]
             ELSE BH_bubble_up_loop(c, Put(d, idx, At(d, par)), par, BH_get_parent(par),
                                    cur, budget - 1,
                                    Pass(Touch(rt, d, {idx, par}), idx, par, "up"))
        ELSE [data |-> Put(d, idx, cur), r |-> Touch(rt, d, {idx})]

BH_bubble_up(c, d, idx, r) ==
    BH_bubble_up_loop(c, d, idx, BH_get_parent(idx), At(d, idx), Budget(d),
                      Touch(r, d, {idx}))

\* child selection that never looks at the right child
BH_pick_child_left(c, d, child, n) == child

\* the child that bubble_down and move_hole_down look at: the right one
\* only when it compares strictly before the left one
BH_pick_child(c, d, child, n) ==
    IF child + 1 < n /\ Comp(c, At(d, child + 1), At(d, child))
    THEN child + 1 ELSE child

\* bubble_down whose loop goes round again where the source has break
RECURSIVE BH_bubble_down_loop_no_break(_, _, _, _, _, _, _, _)
BH_bubble_down_loop_no_break(c, d, idx, child, cur, n, budget, r) ==
    IF child < n
    THEN IF budget = 0
         THEN [data |-> d, r |-> [r EXCEPT !.ok = FALSE]]
         ELSE LET ch == BH_pick_child(c, d, child, n)
              IN  IF Comp(c, At(d, ch), cur)
                  THEN BH_bubble_down_loop_no_break(c, Put(d, idx, At(d, ch)), ch,
                           BH_get_left(ch), cur, n, budget - 1, Pass(r, idx, ch, "down"))
                  ELSE BH_bubble_down_loop_no_break(c, d, idx, BH_get_left(idx), cur, n,
                           budget - 1, Pass(r, idx, idx, "down"))
    ELSE [data |-> Put(d, idx, cur), r |-> r]

\* the while loop of bubble_down
RECURSIVE BH_bubble_down_loop(_, _, _, _, _, _, _, _)
BH_bubble_down_loop(c, d, idx, child, cur, n, budget, r) ==
    IF child < n
    THEN IF budget = 0
         THEN [data |-> d, r |-> [r EXCEPT !.ok = FALSE]]
         ELSE LET ch == BH_pick_child(c, d, child, n)
                  rt == Touch(r, d, IF child + 1 < n THEN {child + 1, child, ch} ELSE {ch})
              IN  IF Comp(c, At(d, ch), cur)
                  THEN BH_bubble_down_loop(c, Put(d, idx, At(d, ch)), ch, BH_get_left(ch),
                                           cur, n, budget - 1,
                                           Pass(Touch(rt, d, {idx, ch}), idx, ch, "down"))
                  ELSE [data |-> Put(d, idx, cur), r |-> Touch(rt, d, {idx})]
    ELSE [data |-> Put(d, idx, cur), r |-> Touch(r, d, {idx})]

BH_bubble_down(c, d, idx, r) ==
    BH_bubble_down_loop(c, d, idx, BH_get_left(idx), At(d, idx), Len(d), Budget(d),
                        Touch(r, d, {idx}))

\* move_hole_down that takes the right child also when it ties with the left
RECURSIVE BH_move_hole_down_loop_ties_right(_, _, _, _, _, _, _)
BH_move_hole_down_loop_ties_right(c, d, idx, child, n, budget, r) ==
    IF child < n
    THEN LET ch == IF child + 1 < n /\ ~Comp(c, At(d, child), At(d, child + 1))
                   THEN child + 1 ELSE child
         IN  BH_move_hole_down_loop_ties_right(c, Put(d, idx, At(d, ch)), ch,
                 BH_get_left(ch), n, budget - 1, Pass(r, idx, ch, "down"))
    ELSE [data |-> d, idx |-> idx, r |-> r]

\* move_hole_down: the backing sequence after the moves and the index of
\* the leaf the hole has reached
RECURSIVE BH_move_hole_down_loop(_, _, _, _, _, _, _)
BH_move_hole_down_loop(c, d, idx, child, n, budget, r) ==
    IF child < n
    THEN IF budget = 0
         THEN [data |-> d, idx |-> idx, r |-> [r EXCEPT !.ok = FALSE]]
         ELSE LET ch == BH_pick_child(c, d, child, n)
                  rt == Touch(r, d, IF child + 1 < n THEN {child + 1, child} ELSE {})
              IN  BH_move_hole_down_loop(c, Put(d, idx, At(d, ch)), ch, BH_get_left(ch), n,
                                         budget - 1,
                                         Pass(Touch(rt, d, {idx, ch}), idx, ch, "down"))
    ELSE [data |-> d, idx |-> idx, r |-> r]

BH_move_hole_down(c, d, idx, r) ==
    BH_move_hole_down_loop(c, d, idx, BH_get_left(idx), Len(d), Budget(d), r)

\* heapify: for (i = size / 2 - 1; i >= 0; i--) bubble_down(i)
RECURSIVE BH_heapify_loop(_, _, _, _, _)
BH_heapify_loop(c, d, i, budget, r) ==
    IF i >= 0
    THEN IF budget = 0
         THEN [data |-> d, r |-> [r EXCEPT !.ok = FALSE]]
         ELSE LET b == BH_bubble_down(c, d, i, r)
              IN  BH_heapify_loop(c, b.data, i - 1, budget - 1,
                                  Pass(b.r, i, i - 1, "count_down"))
    ELSE [data |-> d, r |-> r]

\* heapify whose loop starts one internal node too late
BH_heapify_skip_last(c, d) == BH_heapify_loop(c, d, (Len(d) \div 2) - 2, Budget(d), NoLoops)

BH_heapify(c, d) == BH_heapify_loop(c, d, (Len(d) \div 2) - 1, Budget(d), NoLoops)

\* BinaryHeap(const Compare&, const Container&) and the constructors that
\* delegate to it
BinaryHeap(c, cont) == [data |-> BH_heapify(c, cont).data, comp |-> c]

\* BinaryHeap(It first, It last, comp): materialises Container(first, last)
BinaryHeapRange(c, range) == BinaryHeap(c, range)

BH_push(h, elem) ==
    LET d == Append(h.data, elem)
    IN  [h EXCEPT !.data = BH_bubble_up(h.comp, d, Len(d) - 1, NoReport).data]

BH_emplace(h, arg) ==
    LET d == Append(h.data, arg)
    IN  [h EXCEPT !.data = BH_bubble_up(h.comp, d, Len(d) - 1, NoReport).data]

\* pop that fills the hole with the last element and leaves it there
BH_pop_no_bubble_up(h) ==
    LET m == BH_move_hole_down(h.comp, h.data, ROOT, NoReport)
    IN  IF m.idx + 1 = Len(m.data)
        THEN [h EXCEPT !.data = PopBack(m.data)]
        ELSE [h EXCEPT !.data = PopBack(Put(m.data, m.idx, Back(m.data)))]

BH_pop(h) ==
    LET m == BH_move_hole_down(h.comp, h.data, ROOT, NoReport)
    IN  IF m.idx + 1 = Len(m.data)
        THEN [h EXCEPT !.data = PopBack(m.data)]
        ELSE [h EXCEPT !.data =
                 BH_bubble_up(h.comp, PopBack(Put(m.data, m.idx, Back(m.data))), m.idx,
                              NoReport).data]

\* replace_top that overwrites the root and stops
BH_replace_top_no_bubble_down(h, val) == [h EXCEPT !.data = Put(h.data, ROOT, val)]

BH_replace_top(h, val) ==
    [h EXCEPT !.data = BH_bubble_down(h.comp, Put(h.data, ROOT, val), ROOT, NoReport).data]



\* swap that exchanges _data and leaves each _comp where it was
BH_swap_data_only(h, other) ==
    [self |-> [h EXCEPT !.data = other.data], other |-> [other EXCEPT !.data = h.data]]

\* swap(BinaryHeap& other): exchanges _data and _comp
BH_swap(h, other) == [self |-> other, other |-> h]

\* the implicit move constructor / move assignment: the target takes the
\* source's vector and comparator, the moved-from vector is left empty
BH_move(h) == [to |-> h, from |-> [h EXCEPT !.data = << >>]]

(***************************************************************************)
(* dsa::IntervalHeap                                                       *)
(***************************************************************************)
\* std::swap(_data[i], _data[j])
SwapAt(d, i, j) == [d EXCEPT ![i + 1] = At(d, j), ![j + 1] = At(d, i)]

IH_get_parent(idx) == (USub(idx, 2) \div 4) * 2
IH_get_left(idx) == (idx + 1) * 2
IH_is_min(idx) == idx % 2 = 0
IH_is_max(idx) == idx % 2 = 1

IH_empty(h) == Len(h.data) = 0
IH_size(h) == Len(h.data)
IH_min(h) == At(h.data, ROOT)
\* max() that takes slot 1 only from the third element on
IH_max_late(h) == IF IH_size(h) > 2 THEN At(h.data, ROOT + 1) ELSE At(h.data, ROOT)

IH_max(h) == IF IH_size(h) > 1 THEN At(h.data, ROOT + 1) ELSE At(h.data, ROOT)

IH_balance_node(c, d, idx) ==
    IF Comp(c, At(d, idx + 1), At(d, idx)) THEN SwapAt(d, idx + 1, idx) ELSE d

\* balance_node_check that never looks at the sibling slot
IH_balance_node_check_skip(c, d, idx) == d

IH_balance_node_check(c, d, idx) ==
    IF idx + 1 < Len(d) THEN IH_balance_node(c, d, idx) ELSE d

\* bubble_up, the do-while over the min slots: the body runs, then the test
RECURSIVE IH_bubble_up_min_loop(_, _, _, _, _, _, _)
IH_bubble_up_min_loop(c, d, idx, par, cur, budget, r) ==
    IF budget = 0
    THEN [data |-> d, idx |-> idx, r |-> [r EXCEPT !.ok = FALSE]]
    ELSE LET d2 == Put(d, idx, At(d, par))
             idx2 == par
             par2 == IH_get_parent(idx2)
             rt == Touch(r, d, {idx, par})
             r2 == Pass(IF idx2 > ROOT + 1 THEN Touch(rt, d, {par2}) ELSE rt,
                        idx, idx2, "up")
         IN  IF idx2 > ROOT + 1 /\ Comp(c, cur, At(d2, par2))
             THEN IH_bubble_up_min_loop(c, d2, idx2, par2, cur, budget - 1, r2)
             ELSE [data |-> d2, idx |-> idx2, r |-> r2]

\* bubble_up, the do-while over the max slots
RECURSIVE IH_bubble_up_max_loop(_, _, _, _, _, _, _)
IH_bubble_up_max_loop(c, d, idx, par, cur, budget, r) ==
    IF budget = 0
    THEN [data |-> d, idx |-> idx, r |-> [r EXCEPT !.ok = FALSE]]
    ELSE LET d2 == Put(d, idx, At(d, par))
             idx2 == par
             par2 == IH_get_parent(idx2) + 1
             rt == Touch(r, d, {idx, par})
             r2 == Pass(IF idx2 > ROOT + 1 THEN Touch(rt, d, {par2}) ELSE rt,
                        idx, idx2, "up")
         IN  IF idx2 > ROOT + 1 /\ Comp(c, At(d2, par2), cur)
             THEN IH_bubble_up_max_loop(c, d2, idx2, par2, cur, budget - 1, r2)
             ELSE [data |-> d2, idx |-> idx2, r |-> r2]

\* bubble_up that fixes the interval of its own node and never climbs
IH_bubble_up_no_climb(c, data, idx0, r0) ==
    LET cur == At(data, idx0)
        fix == IH_is_max(idx0) /\ Comp(c, cur, At(data, idx0 - 1))
    IN  [data |-> IF fix THEN Put(Put(data, idx0, At(data, idx0 - 1)), idx0 - 1, cur)
                  ELSE data,
         r |-> r0]

IH_bubble_up(c, data, idx0, r0) ==
    LET cur == At(data, idx0)
        fix == IH_is_max(idx0) /\ Comp(c, cur, At(data, idx0 - 1))
        d   == IF fix THEN Put(data, idx0, At(data, idx0 - 1)) ELSE data
        idx == IF fix THEN idx0 - 1 ELSE idx0
        par == IH_get_parent(idx)
        r1  == Touch(r0, data, IF IH_is_max(idx0) THEN {idx0, idx0 - 1} ELSE {idx0})
        r2  == IF idx > ROOT + 1 THEN Touch(r1, d, {par}) ELSE r1
        r3  == IF idx > ROOT + 1 THEN Touch(r2, d, {par + 1}) ELSE r2
        u   == IF idx > ROOT + 1 /\ Comp(c, cur, At(d, par))
               THEN IH_bubble_up_min_loop(c, d, idx, par, cur, Budget(d), r2)
               ELSE IF idx > ROOT + 1 /\ Comp(c, At(d, par + 1), cur)
               THEN IH_bubble_up_max_loop(c, d, idx, par + 1, cur, Budget(d), r3)
               ELSE [data |-> d, idx |-> idx, r |-> r3]
    IN  [data |-> Put(u.data, u.idx, cur), r |-> Touch(u.r, d, {u.idx})]

\* the while loop of bubble_down_min
RECURSIVE IH_bubble_down_min_loop(_, _, _, _, _, _, _)
IH_bubble_down_min_loop(c, d, idx, child0, n, budget, r) ==
    IF child0 < n
    THEN IF budget = 0
         THEN [data |-> d, r |-> [r EXCEPT !.ok = FALSE]]
         ELSE LET child == IF child0 + 2 < n /\ Comp(c, At(d, child0 + 2), At(d, child0))
                           THEN child0 + 2 ELSE child0
                  rt == Touch(r, d, IF child0 + 2 < n
                                    THEN {child0 + 2, child0, child, idx}
                                    ELSE {child, idx})
              IN  IF Comp(c, At(d, child), At(d, idx))
                  THEN LET d1 == SwapAt(d, idx, child)
                           d2 == IF child + 1 < n /\ Comp(c, At(d1, child + 1), At(d1, child))
                                 THEN SwapAt(d1, child + 1, child) ELSE d1
                           rs == IF child + 1 < n THEN Touch(rt, d, {child + 1}) ELSE rt
                       IN  IH_bubble_down_min_loop(c, d2, child, IH_get_left(child), n,
                                                   budget - 1, Pass(rs, idx, child, "down"))
                  ELSE [data |-> d, r |-> rt]
    ELSE [data |-> d, r |-> r]

IH_bubble_down_min(c, d, idx, r) ==
    IH_bubble_down_min_loop(c, d, idx, IH_get_left(idx), Len(d), Budget(d), r)

\* the while loop of bubble_down_max that takes a child node's max from its
\* max slot alone, so that a trailing singleton supplies nothing
RECURSIVE IH_bubble_down_max_loop_full_nodes(_, _, _, _, _, _, _)
IH_bubble_down_max_loop_full_nodes(c, d, idx, child0, n, budget, r) ==
    IF child0 + 1 < n
    THEN IF budget = 0
         THEN [data |-> d, idx |-> idx, r |-> [r EXCEPT !.ok = FALSE]]
         ELSE LET child1a == child0 + 1
                  child2  == child0 + 3
                  right   == child2 < n /\ Comp(c, At(d, child1a), At(d, child2))
                  child   == IF right THEN child0 + 2 ELSE child0
                  child1  == IF right THEN child2 ELSE child1a
              IN  IF Comp(c, At(d, idx + 1), At(d, child1))
                  THEN LET d1 == SwapAt(d, idx + 1, child1)
                           d2 == IF Comp(c, At(d1, child1), At(d1, child1 - 1))
                                 THEN SwapAt(d1, child1, child1 - 1) ELSE d1
                       IN  IH_bubble_down_max_loop_full_nodes(c, d2, child,
                               IH_get_left(child), n, budget - 1,
                               Pass(r, idx, child, "down"))
                  ELSE [data |-> d, idx |-> idx, r |-> r]
    ELSE [data |-> d, idx |-> idx, r |-> r]

\* the while loop of bubble_down_max; idx is the min slot of the current
\* node, the result carries the node the loop stopped at
RECURSIVE IH_bubble_down_max_loop(_, _, _, _, _, _, _)
IH_bubble_down_max_loop(c, d, idx, child0, n, budget, r) ==
    IF child0 < n
    THEN IF budget = 0
         THEN [data |-> d, idx |-> idx, r |-> [r EXCEPT !.ok = FALSE]]
         ELSE LET child1a == IF child0 + 1 < n THEN child0 + 1 ELSE child0
                  child2  == IF child0 + 3 < n THEN child0 + 3 ELSE child0 + 2
                  right   == child2 < n /\ Comp(c, At(d, child1a), At(d, child2))
                  child   == IF right THEN child0 + 2 ELSE child0
                  child1  == IF right THEN child2 ELSE child1a
                  rt == Touch(r, d, IF child2 < n
                                    THEN {child1a, child2, idx + 1, child1}
                                    ELSE {idx + 1, child1})
              IN  IF Comp(c, At(d, idx + 1), At(d, child1))
                  THEN LET d1 == SwapAt(d, idx + 1, child1)
                           d2 == IF IH_is_max(child1)
                                    /\ Comp(c, At(d1, child1), At(d1, child1 - 1))
                                 THEN SwapAt(d1, child1, child1 - 1) ELSE d1
                           rs == IF IH_is_max(child1) THEN Touch(rt, d, {child1 - 1}) ELSE rt
                       IN  IH_bubble_down_max_loop(c, d2, child, IH_get_left(child), n,
                                                   budget - 1, Pass(rs, idx, child, "down"))
                  ELSE [data |-> d, idx |-> idx, r |-> rt]
    ELSE [data |-> d, idx |-> idx, r |-> r]

IH_bubble_down_max(c, d, idx0, r0) ==
    LET idx == idx0 - 1
        n   == Len(d)
        m   == IH_bubble_down_max_loop(c, d, idx, IH_get_left(idx), n, Budget(d), r0)
        rt  == IF m.idx + 1 < n THEN Touch(m.r, d, {m.idx + 1, m.idx}) ELSE m.r
    IN  IF m.idx + 1 < n /\ Comp(c, At(m.data, m.idx + 1), At(m.data, m.idx))
        THEN [data |-> SwapAt(m.data, m.idx, m.idx + 1), r |-> rt]
        ELSE [data |-> m.data, r |-> rt]

\* heapify, first loop: for (i = 0; i < size - 1; i += 2) balance_node(i)
RECURSIVE IH_heapify_balance_loop(_, _, _, _, _)
IH_heapify_balance_loop(c, d, i, budget, r) ==
    IF i < Len(d) - 1
    THEN IF budget = 0
         THEN [data |-> d, r |-> [r EXCEPT !.ok = FALSE]]
         ELSE IH_heapify_balance_loop(c, IH_balance_node(c, d, i), i + 2, budget - 1,
                                      Pass(Touch(r, d, {i + 1, i}), i, i + 2, "count_up"))
    ELSE [data |-> d, r |-> r]

\* the second loop of heapify with bubble_down_min alone in its body
RECURSIVE IH_heapify_down_loop_min_only(_, _, _, _, _)
IH_heapify_down_loop_min_only(c, d, i, budget, r) ==
    IF i >= 0
    THEN IF budget = 0
         THEN [data |-> d, r |-> [r EXCEPT !.ok = FALSE]]
         ELSE LET y == IH_bubble_down_min(c, d, i, r)
              IN  IH_heapify_down_loop_min_only(c, y.data, i - 2, budget - 1,
                                                Pass(y.r, i, i - 2, "count_down"))
    ELSE [data |-> d, r |-> r]

\* heapify, second loop: for (i = (size - 1) / 4 * 2; i >= 0; i -= 2)
RECURSIVE IH_heapify_down_loop(_, _, _, _, _)
IH_heapify_down_loop(c, d, i, budget, r) ==
    IF i >= 0
    THEN IF budget = 0
         THEN [data |-> d, r |-> [r EXCEPT !.ok = FALSE]]
         ELSE LET x == IH_bubble_down_max(c, d, i + 1, r)
                  y == IH_bubble_down_min(c, x.data, i, x.r)
              IN  IH_heapify_down_loop(c, y.data, i - 2, budget - 1,
                                       Pass(y.r, i, i - 2, "count_down"))
    ELSE [data |-> d, r |-> r]

\* heapify without the pass that orders each node
IH_heapify_no_balance(c, d) ==
    IF Len(d) <= 2
    THEN [data |-> IF Len(d) = 2 /\ Comp(c, At(d, 1), At(d, 0)) THEN SwapAt(d, 1, 0) ELSE d,
          r |-> NoLoops]
    ELSE IH_heapify_down_loop(c, d, ((Len(d) - 1) \div 4) * 2, Budget(d), NoLoops)

IH_heapify(c, d) ==
    IF Len(d) <= 2
    THEN [data |-> IF Len(d) = 2 /\ Comp(c, At(d, 1), At(d, 0)) THEN SwapAt(d, 1, 0) ELSE d,
          r |-> IF Len(d) = 2 THEN Touch(NoLoops, d, {1, 0}) ELSE NoLoops]
    ELSE LET b == IH_heapify_balance_loop(c, d, 0, Budget(d), NoLoops)
         IN  IH_heapify_down_loop(c, b.data, ((Len(d) - 1) \div 4) * 2, Budget(d), b.r)

\* IntervalHeap(const Compare&, const Container&) and the constructors that
\* delegate to it
IntervalHeap(c, cont) == [data |-> IH_heapify(c, cont).data, comp |-> c]

\* IntervalHeap(It first, It last, comp): materialises Container(first, last)
IntervalHeapRange(c, range) == IntervalHeap(c, range)

IH_push(h, elem) ==
    LET d == Append(h.data, elem)
    IN  [h EXCEPT !.data = IH_bubble_up(h.comp, d, Len(d) - 1, NoReport).data]

IH_emplace(h, arg) ==
    LET d == Append(h.data, arg)
    IN  [h EXCEPT !.data = IH_bubble_up(h.comp, d, Len(d) - 1, NoReport).data]

\* staging that moves the last element to the root whatever the parity
IH_pop_min_stage_last_to_root(d) == PopBack(Put(d, ROOT, At(d, Len(d) - 1)))

\* pop_min up to and including pop_back, for n >= 2
IH_pop_min_stage(d) ==
    LET n == Len(d)
    IN  IF n % 2 = 1
        THEN PopBack(Put(d, ROOT, At(d, n - 1)))
        ELSE PopBack(Put(Put(d, ROOT, At(d, n - 2)), n - 2, At(d, n - 1)))

\* pop_min that leaves the staged element in the root's min slot
IH_pop_min_no_bubble_down(h) ==
    IF Len(h.data) = 1
    THEN [h EXCEPT !.data = PopBack(h.data)]
    ELSE [h EXCEPT !.data = IH_pop_min_stage(h.data)]

IH_pop_min(h) ==
    IF Len(h.data) = 1
    THEN [h EXCEPT !.data = PopBack(h.data)]
    ELSE [h EXCEPT !.data =
            IH_bubble_down_min(h.comp, IH_pop_min_stage(h.data), ROOT, NoReport).data]

\* pop_max that leaves the former last element in the root's max slot
IH_pop_max_no_bubble_down(h) ==
    LET n == Len(h.data)
    IN  IF n = 1
        THEN [h EXCEPT !.data = PopBack(h.data)]
        ELSE [h EXCEPT !.data = PopBack(Put(h.data, ROOT + 1, At(h.data, n - 1)))]

IH_pop_max(h) ==
    LET n == Len(h.data)
    IN  IF n = 1
        THEN [h EXCEPT !.data = PopBack(h.data)]
        ELSE LET d == PopBack(Put(h.data, ROOT + 1, At(h.data, n - 1)))
             IN  IF n > 2
                 THEN [h EXCEPT !.data = IH_bubble_down_max(h.comp, d, ROOT + 1, NoReport).data]
                 ELSE [h EXCEPT !.data = d]

\* replace_min without the re-check of the root node
IH_replace_min_no_balance(h, val) ==
    [h EXCEPT !.data =
        IH_bubble_down_min(h.comp, Put(h.data, ROOT, val), ROOT, NoReport).data]

IH_replace_min(h, val) ==
    [h EXCEPT !.data =
        IH_bubble_down_min(h.comp,
            IH_balance_node_check(h.comp, Put(h.data, ROOT, val), ROOT), ROOT, NoReport).data]

\* replace_max without the re-check of the root node
IH_replace_max_no_balance(h, val) ==
    IF Len(h.data) = 1
    THEN [h EXCEPT !.data = Put(h.data, ROOT, val)]
    ELSE [h EXCEPT !.data =
            IH_bubble_down_max(h.comp, Put(h.data, ROOT + 1, val), ROOT + 1, NoReport).data]

IH_replace_max(h, val) ==
    IF Len(h.data) = 1
    THEN [h EXCEPT !.data = Put(h.data, ROOT, val)]
    ELSE [h EXCEPT !.data =
            IH_bubble_down_max(h.comp,
                IH_balance_node(h.comp, Put(h.data, ROOT + 1, val), ROOT), ROOT + 1,
                NoReport).data]

\* swap(IntervalHeap& other): exchanges _data and _comp
IH_swap(h, other) == [self |-> other, other |-> h]

\* the implicit move constructor / move assignment
IH_move(h) == [to |-> h, from |-> [h EXCEPT !.data = << >>]]

(***************************************************************************)
(* The differential harnesses: a reference structure r next to the heap s. *)
(* std::priority_queue<T, vector<T>, greater<T>> and std::multiset<T> are  *)
(* written as the non-decreasing sequence of their elements.               *)
(***************************************************************************)
\* TestBinaryHeap
TB_top(q) == Head(q)
TB_empty(q) == Len(q) = 0
TB_size(q) == Len(q)
TB_push(q, elem) == SortedInsert(q, elem)
TB_pop(q) == Tail(q)
TB_replace_top(q, val) == TB_push(TB_pop(q), val)

\* Tester of test_binary_heap.cpp
BT_push(t, elem) == [r |-> TB_push(t.r, elem), s |-> BH_push(t.s, elem)]
BT_pop(t) == [r |-> TB_pop(t.r), s |-> BH_pop(t.s)]
BT_replace_top(t, val) ==
    [r |-> TB_replace_top(t.r, val), s |-> BH_replace_top(t.s, val)]
BT_check(t) ==
    /\ TB_size(t.r) = BH_size(t.s)
    /\ TB_empty(t.r) = BH_empty(t.s)
    /\ ~TB_empty(t.r) => TB_top(t.r) = BH_top(t.s)

\* TestIntervalHeap
TI_min(q) == Head(q)
TI_max(q) == q[Len(q)]
TI_empty(q) == Len(q) = 0
TI_size(q) == Len(q)
TI_push(q, elem) == SortedInsert(q, elem)
TI_pop_min(q) == Tail(q)
TI_pop_max(q) == SubSeq(q, 1, Len(q) - 1)
TI_replace_min(q, val) == TI_push(TI_pop_min(q), val)
TI_replace_max(q, val) == TI_push(TI_pop_max(q), val)

\* Tester of test_interval_heap.cpp
IT_push(t, elem) == [r |-> TI_push(t.r, elem), s |-> IH_push(t.s, elem)]
IT_pop_min(t) == [r |-> TI_pop_min(t.r), s |-> IH_pop_min(t.s)]
IT_pop_max(t) == [r |-> TI_pop_max(t.r), s |-> IH_pop_max(t.s)]
IT_replace_min(t, val) ==
    [r |-> TI_replace_min(t.r, val), s |-> IH_replace_min(t.s, val)]
IT_replace_max(t, val) ==
    [r |-> TI_replace_max(t.r, val), s |-> IH_replace_max(t.s, val)]
IT_check(t) ==
    /\ TI_size(t.r) = IH_size(t.s)
    /\ TI_empty(t.r) = IH_empty(t.s)
    /\ ~TI_empty(t.r) => /\ TI_min(t.r) = IH_min(t.s)
                         /\ TI_max(t.r) = IH_max(t.s)

\* the unfused forms that the replace operations stand for: pop, then push
BH_pop_then_push(h, val) == BH_push(BH_pop(h), val)
IH_pop_min_then_push(h, val) == IH_push(IH_pop_min(h), val)
IH_pop_max_then_push(h, val) == IH_push(IH_pop_max(h), val)

(***************************************************************************)
(* SharedVector (src/containers/shared_vector/example.hpp): three arrays   *)
(* in one buffer.  A pointer buffer + n is the tuple << n >> and nullptr   *)
(* is << >>; the buffer is a sequence of bytes; a value is held as its     *)
(* 32-bit words, low word first.                                           *)
(***************************************************************************)
\* sizeof and alignof of int and double as the ABIs in use fix them; they
\* differ in alignof(double)
Abis ==
    { [int |-> [size |-> 4, align |-> 4], double |-> [size |-> 8, align |-> 8]],
      [int |-> [size |-> 4, align |-> 4], double |-> [size |-> 8, align |-> 4]] }

\* align<U>(idx) with al = alignof(U), in size_t arithmetic
align(al, idx) == ((((idx + al - 1) % SizeWrap) \div al) * al) % SizeWrap

\* the object representation of a value in size bytes, low byte first
Bytes(words, size) ==
    [k \in 1..size |-> (words[((k - 1) \div 4) + 1] \div 256^((k - 1) % 4)) % 256]

\* *(buffer + at) = bytes, as far as the bytes fall inside the buffer
Store(mem, at, bytes) ==
    [k \in 1..Len(mem) |-> IF k - 1 - at \in 0..(Len(bytes) - 1) THEN bytes[k - at] ELSE mem[k]]

\* reset(): what a moved-from SharedVector holds
NullVector ==
    [row |-> << >>, col |-> << >>, val |-> << >>, nrows |-> 0, ncols |-> 0, nvals |-> 0]

\* SharedVector(nrows, ncols, nvals): the object and the size of its buffer
SharedVector(abi, nrows, ncols, nvals) ==
    LET row_begin == 0
        col_begin == align(abi.int.align, (row_begin + abi.int.size * nrows) % SizeWrap)
        val_begin == align(abi.double.align, (col_begin + abi.int.size * ncols) % SizeWrap)
        total     == (val_begin + abi.double.size * nvals) % SizeWrap
    IN  [self  |-> [row |-> << row_begin >>, col |-> << col_begin >>, val |-> << val_begin >>,
                    nrows |-> nrows, ncols |-> ncols, nvals |-> nvals],
         total |-> total]

\* SharedVector(SharedVector&& other)
SV_move(other) == [self |-> other, other |-> NullVector]

\* swap(SharedVector& other): std::swap of all six members
SV_swap(self, other) == [self |-> other, other |-> self]

(***************************************************************************)
(* State.  Each specification below drives one group of objects and leaves *)
(* the other groups as they were constructed.                              *)
(***************************************************************************)
VARIABLES
    op,         \* the operation that produced the current state
    bh1, bh2,   \* two BinaryHeap objects (test_dummy: q and q2)
    ih1, ih2,   \* two IntervalHeap objects
    bt,         \* Tester<T> t of test_binary_heap.cpp: [r, s]
    bsplit,     \* a BinaryHeap given t's operations, replace_top as pop + push
    it,         \* Tester<T> t of test_interval_heap.cpp: [r, s]
    isplitMin,  \* an IntervalHeap given t's operations, replace_min as pop_min + push
    isplitMax,  \* an IntervalHeap given t's operations, replace_max as pop_max + push
    a,          \* test_heapify: the input vector
    q,          \* test_heapify: the heap constructed from a
    out,        \* test_heapify: the extremes read so far, in order
    kind,       \* test_heapify: which heap and which pop the loop uses
    cls,        \* the class of the object that a caller drives call by call
    res,        \* how the caller's last call ended, and the value it returned
    sv          \* test_shared_vector.cpp: sh1, sh2, their buffer and the test's vectors;
                \* << >> where no SharedVector is constructed

vars ==
    << op, bh1, bh2, ih1, ih2, bt, bsplit, it, isplitMin, isplitMax, a, q, out, kind, cls, res,
       sv >>

\* a default-constructed heap: empty vector, Compare()
DefaultHeap == [data |-> << >>, comp |-> "less"]

\* Tester<T> t; both members default-constructed
DefaultTester == [r |-> << >>, s |-> DefaultHeap]

BinaryIdle == bh1 = DefaultHeap /\ bh2 = DefaultHeap
IntervalIdle == ih1 = DefaultHeap /\ ih2 = DefaultHeap
BinaryTesterIdle == bt = DefaultTester /\ bsplit = DefaultHeap
IntervalTesterIdle ==
    it = DefaultTester /\ isplitMin = DefaultHeap /\ isplitMax = DefaultHeap
SortIdle == a = << >> /\ q = DefaultHeap /\ out = << >> /\ kind = "none"

\* no call made yet
NoResult == [outcome |-> "none", value |-> 0, loops |-> NoLoops]
CallIdle == cls = "none" /\ res = NoResult

(***************************************************************************)
(* Spec: two BinaryHeap objects under every public operation.              *)
(***************************************************************************)
Init ==
    /\ op = "construct"
    /\ \E c \in Comparators, cont \in SeqsUpTo(MaxInput) :
           bh1 \in {BinaryHeap(c, cont), BinaryHeapRange(c, Reverse(cont))}
    /\ \E c \in Comparators : bh2 = BinaryHeap(c, << >>)
    /\ IntervalIdle /\ BinaryTesterIdle /\ IntervalTesterIdle /\ SortIdle /\ CallIdle /\ sv = << >>

Push1(v) ==
    /\ BH_size(bh1) + BH_size(bh2) < MaxLen
    /\ bh1' = BH_push(bh1, v)
    /\ op' = "push"
    /\ UNCHANGED << bh2, ih1, ih2, bt, bsplit, it, isplitMin, isplitMax, a, q, out, kind, cls, res, sv >>

Emplace1(v) ==
    /\ BH_size(bh1) + BH_size(bh2) < MaxLen
    /\ bh1' = BH_emplace(bh1, v)
    /\ op' = "emplace"
    /\ UNCHANGED << bh2, ih1, ih2, bt, bsplit, it, isplitMin, isplitMax, a, q, out, kind, cls, res, sv >>

Pop1 ==
    /\ ~BH_empty(bh1)
    /\ bh1' = BH_pop(bh1)
    /\ op' = "pop"
    /\ UNCHANGED << bh2, ih1, ih2, bt, bsplit, it, isplitMin, isplitMax, a, q, out, kind, cls, res, sv >>

ReplaceTop1(v) ==
    /\ ~BH_empty(bh1)
    /\ bh1' = BH_replace_top(bh1, v)
    /\ op' = "replace_top"
    /\ UNCHANGED << bh2, ih1, ih2, bt, bsplit, it, isplitMin, isplitMax, a, q, out, kind, cls, res, sv >>

\* bh1.swap(bh2), also reached through the friend swap(bh1, bh2)
Swap12 ==
    /\ bh1' = BH_swap(bh1, bh2).self
    /\ bh2' = BH_swap(bh1, bh2).other
    /\ op' = "swap"
    /\ UNCHANGED << ih1, ih2, bt, bsplit, it, isplitMin, isplitMax, a, q, out, kind, cls, res, sv >>

\* bh2 = std::move(bh1)
Move12 ==
    /\ bh2' = BH_move(bh1).to
    /\ bh1' = BH_move(bh1).from
    /\ op' = "move"
    /\ UNCHANGED << ih1, ih2, bt, bsplit, it, isplitMin, isplitMax, a, q, out, kind, cls, res, sv >>

Next ==
    \/ \E v \in Values : Push1(v)
    \/ \E v \in Values : Emplace1(v)
    \/ Pop1
    \/ \E v \in Values : ReplaceTop1(v)
    \/ Swap12
    \/ Move12

Spec == Init /\ [][Next]_vars

(***************************************************************************)
(* SpecInterval: two IntervalHeap objects under every public operation.    *)
(***************************************************************************)
InitInterval ==
    /\ op = "construct"
    /\ \E c \in Comparators, cont \in SeqsUpTo(MaxInput) :
           ih1 \in {IntervalHeap(c, cont), IntervalHeapRange(c, Reverse(cont))}
    /\ \E c \in Comparators : ih2 = IntervalHeap(c, << >>)
    /\ BinaryIdle /\ BinaryTesterIdle /\ IntervalTesterIdle /\ SortIdle /\ CallIdle /\ sv = << >>

IPush1(v) ==
    /\ IH_size(ih1) + IH_size(ih2) < MaxLen
    /\ ih1' = IH_push(ih1, v)
    /\ op' = "push"
    /\ UNCHANGED << ih2, bh1, bh2, bt, bsplit, it, isplitMin, isplitMax, a, q, out, kind, cls, res, sv >>

IEmplace1(v) ==
    /\ IH_size(ih1) + IH_size(ih2) < MaxLen
    /\ ih1' = IH_emplace(ih1, v)
    /\ op' = "emplace"
    /\ UNCHANGED << ih2, bh1, bh2, bt, bsplit, it, isplitMin, isplitMax, a, q, out, kind, cls, res, sv >>

IPopMin1 ==
    /\ ~IH_empty(ih1)
    /\ ih1' = IH_pop_min(ih1)
    /\ op' = "pop_min"
    /\ UNCHANGED << ih2, bh1, bh2, bt, bsplit, it, isplitMin, isplitMax, a, q, out, kind, cls, res, sv >>

IPopMax1 ==
    /\ ~IH_empty(ih1)
    /\ ih1' = IH_pop_max(ih1)
    /\ op' = "pop_max"
    /\ UNCHANGED << ih2, bh1, bh2, bt, bsplit, it, isplitMin, isplitMax, a, q, out, kind, cls, res, sv >>

IReplaceMin1(v) ==
    /\ ~IH_empty(ih1)
    /\ ih1' = IH_replace_min(ih1, v)
    /\ op' = "replace_min"
    /\ UNCHANGED << ih2, bh1, bh2, bt, bsplit, it, isplitMin, isplitMax, a, q, out, kind, cls, res, sv >>

IReplaceMax1(v) ==
    /\ ~IH_empty(ih1)
    /\ ih1' = IH_replace_max(ih1, v)
    /\ op' = "replace_max"
    /\ UNCHANGED << ih2, bh1, bh2, bt, bsplit, it, isplitMin, isplitMax, a, q, out, kind, cls, res, sv >>

\* ih1.swap(ih2), also reached through the friend swap(ih1, ih2)
ISwap12 ==
    /\ ih1' = IH_swap(ih1, ih2).self
    /\ ih2' = IH_swap(ih1, ih2).other
    /\ op' = "swap"
    /\ UNCHANGED << bh1, bh2, bt, bsplit, it, isplitMin, isplitMax, a, q, out, kind, cls, res, sv >>

\* ih2 = std::move(ih1)
IMove12 ==
    /\ ih2' = IH_move(ih1).to
    /\ ih1' = IH_move(ih1).from
    /\ op' = "move"
    /\ UNCHANGED << bh1, bh2, bt, bsplit, it, isplitMin, isplitMax, a, q, out, kind, cls, res, sv >>

NextInterval ==
    \/ \E v \in Values : IPush1(v)
    \/ \E v \in Values : IEmplace1(v)
    \/ IPopMin1
    \/ IPopMax1
    \/ \E v \in Values : IReplaceMin1(v)
    \/ \E v \in Values : IReplaceMax1(v)
    \/ ISwap12
    \/ IMove12

SpecInterval == InitInterval /\ [][NextInterval]_vars

(***************************************************************************)
(* SpecBinaryTester: test_corectness of test_binary_heap.cpp.  The heap s  *)
(* and the reference r take the same operation; bsplit takes it too, with  *)
(* replace_top carried out as pop() followed by push().                    *)
(***************************************************************************)
InitBinaryTester ==
    /\ op = "construct"
    /\ bt = DefaultTester
    /\ bsplit = DefaultHeap
    /\ BinaryIdle /\ IntervalIdle /\ IntervalTesterIdle /\ SortIdle /\ CallIdle /\ sv = << >>

\* t.size() < max_elems
TPush(v) ==
    /\ BH_size(bt.s) < MaxElems
    /\ bt' = BT_push(bt, v)
    /\ bsplit' = BH_push(bsplit, v)
    /\ op' = "push"
    /\ UNCHANGED << bh1, bh2, ih1, ih2, it, isplitMin, isplitMax, a, q, out, kind, cls, res, sv >>

TPop ==
    /\ ~BH_empty(bt.s)
    /\ bt' = BT_pop(bt)
    /\ bsplit' = BH_pop(bsplit)
    /\ op' = "pop"
    /\ UNCHANGED << bh1, bh2, ih1, ih2, it, isplitMin, isplitMax, a, q, out, kind, cls, res, sv >>

TReplaceTop(v) ==
    /\ ~BH_empty(bt.s)
    /\ bt' = BT_replace_top(bt, v)
    /\ bsplit' = BH_pop_then_push(bsplit, v)
    /\ op' = "replace_top"
    /\ UNCHANGED << bh1, bh2, ih1, ih2, it, isplitMin, isplitMax, a, q, out, kind, cls, res, sv >>

NextBinaryTester ==
    \/ \E v \in Values : TPush(v)
    \/ TPop
    \/ \E v \in Values : TReplaceTop(v)

SpecBinaryTester == InitBinaryTester /\ [][NextBinaryTester]_vars

(***************************************************************************)
(* SpecIntervalTester: test_corectness of test_interval_heap.cpp.          *)
(* isplitMin carries out replace_min as pop_min() followed by push(), and  *)
(* isplitMax carries out replace_max as pop_max() followed by push().      *)
(***************************************************************************)
InitIntervalTester ==
    /\ op = "construct"
    /\ it = DefaultTester
    /\ isplitMin = DefaultHeap
    /\ isplitMax = DefaultHeap
    /\ BinaryIdle /\ IntervalIdle /\ BinaryTesterIdle /\ SortIdle /\ CallIdle /\ sv = << >>

ITPush(v) ==
    /\ IH_size(it.s) < MaxElems
    /\ it' = IT_push(it, v)
    /\ isplitMin' = IH_push(isplitMin, v)
    /\ isplitMax' = IH_push(isplitMax, v)
    /\ op' = "push"
    /\ UNCHANGED << bh1, bh2, ih1, ih2, bt, bsplit, a, q, out, kind, cls, res, sv >>

ITPopMin ==
    /\ ~IH_empty(it.s)
    /\ it' = IT_pop_min(it)
    /\ isplitMin' = IH_pop_min(isplitMin)
    /\ isplitMax' = IH_pop_min(isplitMax)
    /\ op' = "pop_min"
    /\ UNCHANGED << bh1, bh2, ih1, ih2, bt, bsplit, a, q, out, kind, cls, res, sv >>

ITPopMax ==
    /\ ~IH_empty(it.s)
    /\ it' = IT_pop_max(it)
    /\ isplitMin' = IH_pop_max(isplitMin)
    /\ isplitMax' = IH_pop_max(isplitMax)
    /\ op' = "pop_max"
    /\ UNCHANGED << bh1, bh2, ih1, ih2, bt, bsplit, a, q, out, kind, cls, res, sv >>

ITReplaceMin(v) ==
    /\ ~IH_empty(it.s)
    /\ it' = IT_replace_min(it, v)
    /\ isplitMin' = IH_pop_min_then_push(isplitMin, v)
    /\ isplitMax' = IH_replace_min(isplitMax, v)
    /\ op' = "replace_min"
    /\ UNCHANGED << bh1, bh2, ih1, ih2, bt, bsplit, a, q, out, kind, cls, res, sv >>

ITReplaceMax(v) ==
    /\ ~IH_empty(it.s)
    /\ it' = IT_replace_max(it, v)
    /\ isplitMin' = IH_replace_max(isplitMin, v)
    /\ isplitMax' = IH_pop_max_then_push(isplitMax, v)
    /\ op' = "replace_max"
    /\ UNCHANGED << bh1, bh2, ih1, ih2, bt, bsplit, a, q, out, kind, cls, res, sv >>

NextIntervalTester ==
    \/ \E v \in Values : ITPush(v)
    \/ ITPopMin
    \/ ITPopMax
    \/ \E v \in Values : ITReplaceMin(v)
    \/ \E v \in Values : ITReplaceMax(v)

SpecIntervalTester == InitIntervalTester /\ [][NextIntervalTester]_vars

(***************************************************************************)
(* SpecSort: test_heapify of both test files.  A heap is constructed from  *)
(* an arbitrary vector a, by container or by iterator range, and emptied   *)
(* by reading the extreme and popping it.                                  *)
(***************************************************************************)
InitSort ==
    /\ op = "construct"
    /\ a \in SeqsUpTo(MaxInput)
    /\ kind \in {"pop", "pop_min", "pop_max"}
    /\ q \in IF kind = "pop"
             THEN {BinaryHeap("less", a), BinaryHeapRange("less", Reverse(a))}
             ELSE {IntervalHeap("less", a), IntervalHeapRange("less", Reverse(a))}
    /\ out = << >>
    /\ BinaryIdle /\ IntervalIdle /\ BinaryTesterIdle /\ IntervalTesterIdle /\ CallIdle /\ sv = << >>

\* x == q.min(); q.pop();
SortPop ==
    /\ kind = "pop"
    /\ ~BH_empty(q)
    /\ out' = Append(out, BH_min(q))
    /\ q' = BH_pop(q)
    /\ op' = "pop"
    /\ UNCHANGED << a, kind, bh1, bh2, ih1, ih2, bt, bsplit, it, isplitMin, isplitMax, cls, res, sv >>

\* x == q.min(); q.pop_min();
SortPopMin ==
    /\ kind = "pop_min"
    /\ ~IH_empty(q)
    /\ out' = Append(out, IH_min(q))
    /\ q' = IH_pop_min(q)
    /\ op' = "pop_min"
    /\ UNCHANGED << a, kind, bh1, bh2, ih1, ih2, bt, bsplit, it, isplitMin, isplitMax, cls, res, sv >>

\* *it == q2.max(); q2.pop_max();
SortPopMax ==
    /\ kind = "pop_max"
    /\ ~IH_empty(q)
    /\ out' = Append(out, IH_max(q))
    /\ q' = IH_pop_max(q)
    /\ op' = "pop_max"
    /\ UNCHANGED << a, kind, bh1, bh2, ih1, ih2, bt, bsplit, it, isplitMin, isplitMax, cls, res, sv >>

NextSort ==
    \/ SortPop
    \/ SortPopMin
    \/ SortPopMax

SpecSort == InitSort /\ [][NextSort]_vars

(***************************************************************************)
(* A caller that drives one heap object call by call, with assertions      *)
(* enabled: every public member function that starts with                  *)
(* assert(!empty()) either aborts the process there or runs its body.      *)
(* res is what the caller sees of the last call: how it ended, the value   *)
(* it returned, and the report of the loops it ran.                        *)
(***************************************************************************)

\* the call name ends on the heap object h2; after an access outside
\* [0, size) the behaviour is undefined: any object and any value may come out
Call(name, h2, outcome, value, loops) ==
    /\ res.outcome # "assert_failed"
    /\ op' = name
    /\ \E hu \in IF loops.inRange
                 THEN {h2}
                 ELSE {[data |-> s, comp |-> c] : s \in SeqsUpTo(MaxLen), c \in Comparators} :
          IF cls = "BinaryHeap"
          THEN bh1' = hu /\ ih1' = ih1
          ELSE ih1' = hu /\ bh1' = bh1
    /\ \E vu \in IF loops.inRange THEN {value} ELSE Values :
          res' = [outcome |-> IF loops.inRange THEN outcome ELSE "undefined",
                  value |-> vu, loops |-> loops]
    /\ UNCHANGED << bh2, ih2, bt, bsplit, it, isplitMin, isplitMax, a, q, out, kind, cls, sv >>

\* a failed assertion that lets the call go on and hand out a default value
AssertFailed_sentinel(name) ==
    Call(name, IF cls = "BinaryHeap" THEN bh1 ELSE ih1, "value", 0, NoLoops)

\* assert(!empty()) failed: abort() before the body, the object as it was
AssertFailed(name) ==
    Call(name, IF cls = "BinaryHeap" THEN bh1 ELSE ih1, "assert_failed", 0, NoLoops)

InitCalls ==
    /\ op = "construct"
    /\ cls \in {"BinaryHeap", "IntervalHeap"}
    /\ \E c \in Comparators : \E cont \in SeqsUpTo(MaxInput) :
          IF cls = "BinaryHeap"
          THEN \E y \in {BH_heapify(c, cont)} :
                   IF y.r.inRange
                   THEN /\ bh1 = BinaryHeap(c, cont)
                        /\ ih1 = DefaultHeap
                        /\ res = [NoResult EXCEPT !.loops = y.r]
                   ELSE /\ bh1 \in {[data |-> s, comp |-> k] :
                                       s \in SeqsUpTo(MaxLen), k \in Comparators}
                        /\ ih1 = DefaultHeap
                        /\ res = [NoResult EXCEPT !.loops = y.r, !.outcome = "undefined"]
          ELSE \E y \in {IH_heapify(c, cont)} :
                   IF y.r.inRange
                   THEN /\ ih1 = IntervalHeap(c, cont)
                        /\ bh1 = DefaultHeap
                        /\ res = [NoResult EXCEPT !.loops = y.r]
                   ELSE /\ ih1 \in {[data |-> s, comp |-> k] :
                                       s \in SeqsUpTo(MaxLen), k \in Comparators}
                        /\ bh1 = DefaultHeap
                        /\ res = [NoResult EXCEPT !.loops = y.r, !.outcome = "undefined"]
    /\ bh2 = DefaultHeap /\ ih2 = DefaultHeap
    /\ BinaryTesterIdle /\ IntervalTesterIdle /\ SortIdle /\ sv = << >>

\* top() and min(), which returns top()
CallTop(name) ==
    /\ cls = "BinaryHeap"
    /\ IF BH_empty(bh1)
       THEN AssertFailed(name)
       ELSE Call(name, bh1, "value", IF name = "top" THEN BH_top(bh1) ELSE BH_min(bh1),
                 Touch(NoLoops, bh1.data, {ROOT}))

\* push(elem) and emplace(args...)
CallPush(name, v) ==
    /\ cls = "BinaryHeap" /\ BH_size(bh1) < MaxLen
    /\ Call(name, IF name = "push" THEN BH_push(bh1, v) ELSE BH_emplace(bh1, v), "void", 0,
            BH_bubble_up(bh1.comp, Append(bh1.data, v), BH_size(bh1), NoLoops).r)

CallPop ==
    /\ cls = "BinaryHeap"
    /\ IF BH_empty(bh1)
       THEN AssertFailed("pop")
       ELSE LET m == BH_move_hole_down(bh1.comp, bh1.data, ROOT, NoLoops)
            IN  Call("pop", BH_pop(bh1), "void", 0,
                     IF m.idx + 1 = Len(m.data)
                     THEN m.r
                     ELSE BH_bubble_up(bh1.comp, PopBack(Put(m.data, m.idx, Back(m.data))),
                                       m.idx, Touch(m.r, m.data, {m.idx})).r)

CallReplaceTop(v) ==
    /\ cls = "BinaryHeap"
    /\ IF BH_empty(bh1)
       THEN AssertFailed("replace_top")
       ELSE Call("replace_top", BH_replace_top(bh1, v), "void", 0,
                 BH_bubble_down(bh1.comp, Put(bh1.data, ROOT, v), ROOT,
                                Touch(NoLoops, bh1.data, {ROOT})).r)

ICallMin ==
    /\ cls = "IntervalHeap"
    /\ IF IH_empty(ih1)
       THEN AssertFailed("min")
       ELSE Call("min", ih1, "value", IH_min(ih1), Touch(NoLoops, ih1.data, {ROOT}))

ICallMax ==
    /\ cls = "IntervalHeap"
    /\ IF IH_empty(ih1)
       THEN AssertFailed("max")
       ELSE Call("max", ih1, "value", IH_max(ih1),
                 Touch(NoLoops, ih1.data, IF IH_size(ih1) > 1 THEN {ROOT + 1} ELSE {ROOT}))

\* push(elem) and emplace(args...)
ICallPush(name, v) ==
    /\ cls = "IntervalHeap" /\ IH_size(ih1) < MaxLen
    /\ Call(name, IF name = "push" THEN IH_push(ih1, v) ELSE IH_emplace(ih1, v), "void", 0,
            IH_bubble_up(ih1.comp, Append(ih1.data, v), IH_size(ih1), NoLoops).r)

ICallPopMin ==
    /\ cls = "IntervalHeap"
    /\ IF IH_empty(ih1)
       THEN AssertFailed("pop_min")
       ELSE Call("pop_min", IH_pop_min(ih1), "void", 0,
                 IF IH_size(ih1) = 1
                 THEN NoLoops
                 ELSE LET n == IH_size(ih1)
                      IN  IH_bubble_down_min(ih1.comp, IH_pop_min_stage(ih1.data), ROOT,
                              Touch(NoLoops, ih1.data,
                                    IF n % 2 = 1 THEN {ROOT, n - 1}
                                                 ELSE {ROOT, n - 2, n - 1})).r)

ICallPopMax ==
    /\ cls = "IntervalHeap"
    /\ IF IH_empty(ih1)
       THEN AssertFailed("pop_max")
       ELSE Call("pop_max", IH_pop_max(ih1), "void", 0,
                 LET n  == IH_size(ih1)
                     rt == Touch(NoLoops, ih1.data, {ROOT + 1, n - 1})
                 IN  IF n = 1 THEN NoLoops
                     ELSE IF n = 2 THEN rt
                     ELSE IH_bubble_down_max(ih1.comp,
                              PopBack(Put(ih1.data, ROOT + 1, Back(ih1.data))), ROOT + 1,
                              rt).r)

ICallReplaceMin(v) ==
    /\ cls = "IntervalHeap"
    /\ IF IH_empty(ih1)
       THEN AssertFailed("replace_min")
       ELSE Call("replace_min", IH_replace_min(ih1, v), "void", 0,
                 IH_bubble_down_min(ih1.comp,
                     IH_balance_node_check(ih1.comp, Put(ih1.data, ROOT, v), ROOT), ROOT,
                     Touch(NoLoops, ih1.data,
                           IF ROOT + 1 < IH_size(ih1) THEN {ROOT, ROOT + 1} ELSE {ROOT})).r)

ICallReplaceMax(v) ==
    /\ cls = "IntervalHeap"
    /\ IF IH_empty(ih1)
       THEN AssertFailed("replace_max")
       ELSE Call("replace_max", IH_replace_max(ih1, v), "void", 0,
                 IF IH_size(ih1) = 1
                 THEN Touch(NoLoops, ih1.data, {ROOT})
                 ELSE IH_bubble_down_max(ih1.comp,
                          IH_balance_node(ih1.comp, Put(ih1.data, ROOT + 1, v), ROOT),
                          ROOT + 1, Touch(NoLoops, ih1.data, {ROOT + 1, ROOT})).r)

NextCalls ==
    \/ \E name \in {"top", "min"} : CallTop(name)
    \/ \E name \in {"push", "emplace"} : \E v \in Values : CallPush(name, v)
    \/ CallPop
    \/ \E v \in Values : CallReplaceTop(v)
    \/ ICallMin
    \/ ICallMax
    \/ \E name \in {"push", "emplace"} : \E v \in Values : ICallPush(name, v)
    \/ ICallPopMin
    \/ ICallPopMax
    \/ \E v \in Values : ICallReplaceMin(v)
    \/ \E v \in Values : ICallReplaceMax(v)

SpecCalls == InitCalls /\ [][NextCalls]_vars

(***************************************************************************)
(* Two heap objects a and b of one class (bh1, bh2 or ih1, ih2): each is   *)
(* mutated on its own, and they are swapped or moved into one another.     *)
(***************************************************************************)

\* a and b: the two objects of the class under test
HeapA == IF cls = "BinaryHeap" THEN bh1 ELSE ih1
HeapB == IF cls = "BinaryHeap" THEN bh2 ELSE ih2

\* the step that leaves a as x and b as y
SetPair(name, x, y) ==
    /\ op' = name
    /\ IF cls = "BinaryHeap"
       THEN bh1' = x /\ bh2' = y /\ UNCHANGED << ih1, ih2 >>
       ELSE ih1' = x /\ ih2' = y /\ UNCHANGED << bh1, bh2 >>
    /\ UNCHANGED << bt, bsplit, it, isplitMin, isplitMax, a, q, out, kind, cls, res, sv >>

InitSwap ==
    /\ op = "construct"
    /\ cls \in {"BinaryHeap", "IntervalHeap"}
    /\ res = NoResult
    /\ \E c1 \in Comparators, c2 \in Comparators :
       \E cont1 \in SeqsUpTo(MaxSwapLen), cont2 \in SeqsUpTo(MaxSwapLen) :
          IF cls = "BinaryHeap"
          THEN /\ bh1 = BinaryHeap(c1, cont1) /\ bh2 = BinaryHeap(c2, cont2)
               /\ ih1 = DefaultHeap /\ ih2 = DefaultHeap
          ELSE /\ ih1 = IntervalHeap(c1, cont1) /\ ih2 = IntervalHeap(c2, cont2)
               /\ bh1 = DefaultHeap /\ bh2 = DefaultHeap
    /\ BinaryTesterIdle /\ IntervalTesterIdle /\ SortIdle /\ sv = << >>

\* a.push(v) / b.push(v)
PairPush(who, v) ==
    LET h  == IF who = "a" THEN HeapA ELSE HeapB
        h2 == IF cls = "BinaryHeap" THEN BH_push(h, v) ELSE IH_push(h, v)
    IN  /\ Len(h.data) < MaxSwapLen
        /\ IF who = "a" THEN SetPair("push_a", h2, HeapB) ELSE SetPair("push_b", HeapA, h2)

\* a.pop() / a.pop_max() / b.pop() / b.pop_max()
PairPop(who) ==
    LET h  == IF who = "a" THEN HeapA ELSE HeapB
        h2 == IF cls = "BinaryHeap" THEN BH_pop(h) ELSE IH_pop_max(h)
    IN  /\ Len(h.data) > 0
        /\ IF who = "a" THEN SetPair("pop_a", h2, HeapB) ELSE SetPair("pop_b", HeapA, h2)

\* a.swap(b)
SwapMember ==
    LET s == IF cls = "BinaryHeap" THEN BH_swap(HeapA, HeapB) ELSE IH_swap(HeapA, HeapB)
    IN  SetPair("swap", s.self, s.other)

\* swap(a, b), the friend function: a.swap(b)
SwapFree ==
    LET s == IF cls = "BinaryHeap" THEN BH_swap(HeapA, HeapB) ELSE IH_swap(HeapA, HeapB)
    IN  SetPair("swap_free", s.self, s.other)

\* b = std::move(a)
MoveAB ==
    LET m == IF cls = "BinaryHeap" THEN BH_move(HeapA) ELSE IH_move(HeapA)
    IN  SetPair("move", m.from, m.to)

NextSwap ==
    \/ \E who \in {"a", "b"} : \E v \in Values : PairPush(who, v)
    \/ \E who \in {"a", "b"} : PairPop(who)
    \/ SwapMember
    \/ SwapFree
    \/ MoveAB

SpecSwap == InitSwap /\ [][NextSwap]_vars

(***************************************************************************)
(* A fixed run on an IntervalHeap with the natural order: construction     *)
(* from a six-element vector, then pop_max(), then replace_min(10).  The   *)
(* vector is <<5, 3, 8, 1, 9, 2>> in any of its orderings.                  *)
(***************************************************************************)

ScenarioInput == << 5, 3, 8, 1, 9, 2 >>

InitScenario ==
    /\ op = "construct"
    /\ a \in {s \in [DOMAIN ScenarioInput -> {ScenarioInput[i] : i \in DOMAIN ScenarioInput}] :
                \A i, j \in DOMAIN s : i # j => s[i] # s[j]}
    /\ ih1 = IntervalHeapRange("less", a)
    /\ ih2 = DefaultHeap
    /\ q = DefaultHeap /\ out = << >> /\ kind = "none"
    /\ BinaryIdle /\ BinaryTesterIdle /\ IntervalTesterIdle /\ CallIdle /\ sv = << >>

ScenarioPopMax ==
    /\ op = "construct"
    /\ op' = "pop_max"
    /\ ih1' = IH_pop_max(ih1)
    /\ UNCHANGED << bh1, bh2, ih2, bt, bsplit, it, isplitMin, isplitMax, a, q, out, kind, cls, res, sv >>

ScenarioReplaceMin ==
    /\ op = "pop_max"
    /\ op' = "replace_min"
    /\ ih1' = IH_replace_min(ih1, 10)
    /\ UNCHANGED << bh1, bh2, ih2, bt, bsplit, it, isplitMin, isplitMax, a, q, out, kind, cls, res, sv >>

NextScenario ==
    \/ ScenarioPopMax
    \/ ScenarioReplaceMin

SpecScenario == InitScenario /\ [][NextScenario]_vars

(***************************************************************************)
(* SpecShared: test_correctness of test_shared_vector.cpp.  sh1 is         *)
(* constructed and filled; then elements are written through the object   *)
(* that owns the buffer, and sh1 and sh2 are moved and swapped.  sv.row,   *)
(* sv.col and sv.val are the test's vectors of expected values, kept for   *)
(* the first MaxCount elements of each array.  A write outside the buffer  *)
(* is undefined behaviour: the process may die (fault "segfault") or go on *)
(* with memory beside the buffer overwritten (fault "overrun").            *)
(***************************************************************************)
InitShared ==
    /\ op = "construct"
    /\ BinaryIdle /\ IntervalIdle /\ BinaryTesterIdle /\ IntervalTesterIdle
    /\ SortIdle /\ CallIdle
    /\ \E abi \in Abis :
       LET Counts(size) == (0..MaxCount) \cup {SizeWrap \div size, SizeWrap \div size + 1}
       IN  \E n1 \in Counts(abi.int.size), n2 \in Counts(abi.int.size),
              n3 \in Counts(abi.double.size) :
              LET c == SharedVector(abi, n1, n2, n3)
                  Kept(n) == IF n < MaxCount THEN n ELSE MaxCount
                  Fill(mem, p, n, size, words) ==
                      Store(mem, p[1], [j \in 1..(size * Kept(n)) |->
                                           Bytes(words, size)[((j - 1) % size) + 1]])
                  Inside(p, n, size) == size * n <= c.total - p[1]
                  m0 == [k \in 1..c.total |-> -1]
                  m1 == Fill(m0, c.self.row, n1, abi.int.size, << 4 >>)
                  m2 == Fill(m1, c.self.col, n2, abi.int.size, << -4 >>)
                  m3 == Fill(m2, c.self.val, n3, abi.double.size, << 0, 1074921472 >>)
              IN  \E f \in IF /\ Inside(c.self.row, n1, abi.int.size)
                               /\ Inside(c.self.col, n2, abi.int.size)
                               /\ Inside(c.self.val, n3, abi.double.size)
                            THEN {"none"} ELSE {"segfault", "overrun"} :
                     sv = [abi |-> abi, sh1 |-> c.self, sh2 |-> NullVector, made2 |-> FALSE,
                           mem |-> m3,
                           row |-> [i \in 1..Kept(n1) |-> << 4 >>],
                           col |-> [i \in 1..Kept(n2) |-> << -4 >>],
                           val |-> [i \in 1..Kept(n3) |-> << 0, 1074921472 >>],
                           fault |-> f]

\* sh.row[i] = v, sh.col[i] = v or sh.val[i] = v inside test(sh), with the
\* same store into the test's own vector
SharedWrite(who, arr, i, words) ==
    LET sh   == IF who = "sh1" THEN sv.sh1 ELSE sv.sh2
        size == IF arr = "val" THEN sv.abi.double.size ELSE sv.abi.int.size
        n    == IF arr = "row" THEN sh.nrows ELSE IF arr = "col" THEN sh.ncols ELSE sh.nvals
        at   == sh[arr][1] + size * i
    IN  /\ sv.fault # "segfault"
        /\ i < n
        /\ op' = "write"
        /\ \E f \in IF at + size <= Len(sv.mem) THEN {sv.fault} ELSE {"segfault", "overrun"} :
              sv' = [sv EXCEPT !.mem = Store(@, at, Bytes(words, size)),
                               ![arr] = [@ EXCEPT ![i + 1] = words],
                               !.fault = f]
        /\ UNCHANGED << bh1, bh2, ih1, ih2, bt, bsplit, it, isplitMin, isplitMax, a, q, out,
                        kind, cls, res >>

\* SharedVector sh2(std::move(sh1))
SharedMoveConstruct ==
    /\ sv.fault # "segfault"
    /\ ~sv.made2
    /\ op' = "move constructor"
    /\ sv' = [sv EXCEPT !.sh2 = SV_move(sv.sh1).self, !.sh1 = SV_move(sv.sh1).other,
                        !.made2 = TRUE]
    /\ UNCHANGED << bh1, bh2, ih1, ih2, bt, bsplit, it, isplitMin, isplitMax, a, q, out,
                    kind, cls, res >>

\* sh1 = std::move(sh2), sh1.swap(sh2) and swap(sh1, sh2): each one is
\* sh1.swap(sh2)
SharedSwap(name) ==
    /\ sv.fault # "segfault"
    /\ sv.made2
    /\ op' = name
    /\ sv' = [sv EXCEPT !.sh1 = SV_swap(sv.sh1, sv.sh2).self,
                        !.sh2 = SV_swap(sv.sh1, sv.sh2).other]
    /\ UNCHANGED << bh1, bh2, ih1, ih2, bt, bsplit, it, isplitMin, isplitMax, a, q, out,
                    kind, cls, res >>

NextShared ==
    \/ \E who \in {"sh1", "sh2"}, arr \in {"row", "col"}, i \in 0..(MaxCount - 1) :
          \E words \in {<< 4 >>, << -4 >>} : SharedWrite(who, arr, i, words)
    \/ \E who \in {"sh1", "sh2"}, i \in 0..(MaxCount - 1) :
          \E words \in {<< 0, 1074921472 >>, << 0, 1071644672 >>} :
             SharedWrite(who, "val", i, words)
    \/ SharedMoveConstruct
    \/ \E name \in {"move assignment", "swap", "friend swap"} : SharedSwap(name)

SpecShared == InitShared /\ [][NextShared]_vars

(***************************************************************************)
(* Properties of Spec.                                                     *)
(***************************************************************************)
\* the heap property of one BinaryHeap over its whole backing sequence
BinaryHeapInvariant(h) ==
    \A i \in 1..(Len(h.data) - 1) :
        ~Comp(h.comp, At(h.data, i), At(h.data, (i - 1) \div 2))

\* C1: from an empty heap or a heap constructed over an arbitrary sequence,
\* after any sequence of push/emplace, pop, replace_top, swap and move,
\* every index i >= 1 satisfies !less(data[i], data[(i-1)/2]).
C1_BinaryHeapInvariant ==
    BinaryHeapInvariant(bh1) /\ BinaryHeapInvariant(bh2)

\* a pop has left a heap of three levels that holds different values
C1_Witness ==
    /\ op = "pop"
    /\ BH_size(bh1) >= 5
    /\ At(bh1.data, 0) # At(bh1.data, 4)
    /\ At(bh1.data, 1) # At(bh1.data, 2)

(***************************************************************************)
(* Properties of SpecInterval.                                             *)
(***************************************************************************)
\* slot of node k that holds the node's max: 2k+1, or the lone slot 2k of a
\* trailing singleton node
MaxSlot(d, k) == IF 2 * k + 1 < Len(d) THEN 2 * k + 1 ELSE 2 * k

\* number of nodes of a backing sequence
Nodes(d) == (Len(d) + 1) \div 2

\* (a) interval property of every full node
IntervalProperty(h) ==
    \A k \in 0..(Nodes(h.data) - 1) :
        2 * k + 1 < Len(h.data) =>
            ~Comp(h.comp, At(h.data, 2 * k + 1), At(h.data, 2 * k))

\* (b) the min slots form a min-heap under parent(k) = (k-1)/2
MinHeapProperty(h) ==
    \A k \in 1..(Nodes(h.data) - 1) :
        ~Comp(h.comp, At(h.data, 2 * k), At(h.data, 2 * ((k - 1) \div 2)))

\* (c) the max slots form a max-heap under the same parent relation; the
\* lone element of a trailing singleton counts as that node's max
MaxHeapProperty(h) ==
    \A k \in 1..(Nodes(h.data) - 1) :
        ~Comp(h.comp, At(h.data, 2 * ((k - 1) \div 2) + 1), At(h.data, MaxSlot(h.data, k)))

IntervalHeapInvariant(h) ==
    IntervalProperty(h) /\ MinHeapProperty(h) /\ MaxHeapProperty(h)

\* C2: from an empty heap, after any sequence of push/emplace, pop_min,
\* pop_max, replace_min, replace_max and swap, the backing sequence has the
\* interval property in every full node, a min-heap over the min slots and a
\* max-heap over the max slots (a trailing singleton's lone element does not
\* exceed its parent's max).
C2_IntervalHeapInvariant ==
    IntervalHeapInvariant(ih1) /\ IntervalHeapInvariant(ih2)

\* an operation has left a heap of three levels with a trailing singleton
\* that holds different values
C2_Witness ==
    /\ op \in {"pop_min", "pop_max", "replace_min", "replace_max"}
    /\ IH_size(ih1) = 7
    /\ At(ih1.data, 0) # At(ih1.data, 1)
    /\ At(ih1.data, 6) # At(ih1.data, 0)
    /\ At(ih1.data, 6) # At(ih1.data, 1)

(***************************************************************************)
(* Properties of SpecBinaryTester.                                         *)
(***************************************************************************)
\* C3: after every operation of any sequence of push, pop and replace_top,
\* the BinaryHeap and the reference min-priority multiset agree on size(),
\* on empty() and, when non-empty, top() is the minimum of the reference.
C3_BinaryTesterCheck == BT_check(bt)

\* a pop or replace_top has left six elements or more, duplicates among them
C3_Witness ==
    /\ op \in {"pop", "replace_top"}
    /\ BH_size(bt.s) >= 6
    /\ \E i, j \in 1..Len(bt.r) : i # j /\ bt.r[i] = bt.r[j]
    /\ bt.r[1] # bt.r[Len(bt.r)]

(***************************************************************************)
(* Properties of SpecIntervalTester.                                       *)
(***************************************************************************)
\* C4: after every operation of any sequence of push, pop_min, pop_max,
\* replace_min and replace_max, the IntervalHeap and the reference ordered
\* multiset agree on size(), on empty() and, when non-empty, min() is the
\* smallest and max() the largest element of the reference.
C4_IntervalTesterCheck == IT_check(it)

\* a pop or replace has left seven elements or more, duplicates among them
C4_Witness ==
    /\ op \in {"pop_min", "pop_max", "replace_min", "replace_max"}
    /\ IH_size(it.s) >= 7
    /\ \E i, j \in 1..Len(it.r) : i # j /\ it.r[i] = it.r[j]
    /\ it.r[1] # it.r[Len(it.r)]

(***************************************************************************)
(* Properties of SpecSort.                                                 *)
(***************************************************************************)
\* sort(a.begin(), a.end())
Sorted(s) == MultisetOf(s)

Prefix(s, n) == SubSeq(s, 1, n)

\* a vector that is neither sorted nor reverse sorted and repeats a value
Shuffled(s) ==
    /\ s # Sorted(s)
    /\ s # Reverse(Sorted(s))
    /\ \E i, j \in 1..Len(s) : i # j /\ s[i] = s[j]

\* C5: a BinaryHeap constructed from any sequence a (by container or by
\* iterator range), read with min() and popped |a| times, yields the
\* elements of a in non-decreasing order and ends empty.
C5_BinaryHeapSort ==
    kind = "pop" =>
        /\ out = Prefix(Sorted(a), Len(out))
        /\ BH_size(q) = Len(a) - Len(out)

\* the loop has emptied a heap built from six or more shuffled elements
C5_Witness ==
    /\ kind = "pop" /\ op = "pop"
    /\ Len(a) >= 6 /\ Shuffled(a)
    /\ BH_empty(q)
    /\ Len(out) = Len(a)

\* C6: an IntervalHeap constructed from any sequence a, read with min() and
\* popped with pop_min() |a| times, yields the elements of a in
\* non-decreasing order and ends empty.
C6_IntervalHeapSortMin ==
    kind = "pop_min" =>
        /\ out = Prefix(Sorted(a), Len(out))
        /\ IH_size(q) = Len(a) - Len(out)

\* the loop has emptied an interval heap of three levels
C6_Witness ==
    /\ kind = "pop_min" /\ op = "pop_min"
    /\ Len(a) >= 7 /\ Shuffled(a)
    /\ IH_empty(q)
    /\ Len(out) = Len(a)

\* C7: an IntervalHeap constructed from any sequence a, read with max() and
\* popped with pop_max() |a| times, yields the elements of a in
\* non-increasing order and ends empty.
C7_IntervalHeapSortMax ==
    kind = "pop_max" =>
        /\ out = Prefix(Reverse(Sorted(a)), Len(out))
        /\ IH_size(q) = Len(a) - Len(out)

\* the loop has emptied an interval heap of three levels from the max side
C7_Witness ==
    /\ kind = "pop_max" /\ op = "pop_max"
    /\ Len(a) >= 7 /\ Shuffled(a)
    /\ IH_empty(q)
    /\ Len(out) = Len(a)

(***************************************************************************)
(* Fusion equivalence (SpecBinaryTester, SpecIntervalTester).              *)
(***************************************************************************)
\* two BinaryHeaps that an observer cannot tell apart now
BH_same_observable(f, p) ==
    /\ MultisetOf(f.data) = MultisetOf(p.data)
    /\ BH_size(f) = BH_size(p)
    /\ ~BH_empty(f) => BH_top(f) = BH_top(p)

\* two IntervalHeaps that an observer cannot tell apart now
IH_same_observable(f, p) ==
    /\ MultisetOf(f.data) = MultisetOf(p.data)
    /\ IH_size(f) = IH_size(p)
    /\ ~IH_empty(f) => IH_min(f) = IH_min(p) /\ IH_max(f) = IH_max(p)

\* C8: for every reachable non-empty heap h and value v, replace_top(v) on h
\* and pop() then push(v) on a copy of h hold the same multiset and show the
\* same top(), at once and after any identical further operations (bt.s and
\* bsplit have taken the same operations, fused and unfused).
C8_BinaryFusion ==
    /\ BH_same_observable(bt.s, bsplit)
    /\ ~BH_empty(bt.s) =>
          \A v \in Values :
              BH_same_observable(BH_replace_top(bt.s, v), BH_pop_then_push(bt.s, v))

\* a replace_top has left the fused and the unfused heap in different layouts
C8_Witness ==
    /\ op = "replace_top"
    /\ BH_size(bt.s) >= 4
    /\ bt.s.data # bsplit.data

\* C9: for every reachable non-empty heap h and value v (also v above max()
\* and h of size 1), replace_min(v) and pop_min() then push(v) hold the same
\* multiset and show the same min() and max(), at once and after any
\* identical further operations.
C9_ReplaceMinFusion ==
    /\ IH_same_observable(it.s, isplitMin)
    /\ ~IH_empty(it.s) =>
          \A v \in Values :
              IH_same_observable(IH_replace_min(it.s, v), IH_pop_min_then_push(it.s, v))

\* a replace_min has left the fused and the unfused heap in different layouts
C9_Witness ==
    /\ op = "replace_min"
    /\ IH_size(it.s) >= 5
    /\ it.s.data # isplitMin.data

\* C10: for every reachable non-empty heap h and value v (also v below min()
\* and h of size 1), replace_max(v) and pop_max() then push(v) hold the same
\* multiset and show the same min() and max(), at once and after any
\* identical further operations.
C10_ReplaceMaxFusion ==
    /\ IH_same_observable(it.s, isplitMax)
    /\ ~IH_empty(it.s) =>
          \A v \in Values :
              IH_same_observable(IH_replace_max(it.s, v), IH_pop_max_then_push(it.s, v))

\* a replace_max has left the fused and the unfused heap in different layouts
C10_Witness ==
    /\ op = "replace_max"
    /\ IH_size(it.s) >= 5
    /\ it.s.data # isplitMax.data

(***************************************************************************)
(* Size accounting                                                         *)
(***************************************************************************)

\* the object the caller drives: its size() and empty()
CallSize == IF cls = "BinaryHeap" THEN BH_size(bh1) ELSE IH_size(ih1)
CallEmpty == IF cls = "BinaryHeap" THEN BH_empty(bh1) ELSE IH_empty(ih1)

SizeStep ==
    /\ op' \in {"push", "emplace"} => CallSize' = CallSize + 1
    /\ (op' \in {"pop", "pop_min", "pop_max"} /\ ~CallEmpty) => CallSize' = CallSize - 1
    /\ op' \in {"replace_top", "replace_min", "replace_max"} => CallSize' = CallSize

\* C11: on both heaps size() == 0 exactly when empty(), every push/emplace
\* adds exactly one to size(), every pop/pop_min/pop_max on a non-empty heap
\* takes exactly one off, and replace_top/replace_min/replace_max keep it.
C11_SizeAccounting == [](CallSize = 0 <=> CallEmpty) /\ [][SizeStep]_vars

\* pop_max has taken a two-element IntervalHeap to one element (n == 2 branch)
C11_Witness == cls = "IntervalHeap" /\ op = "pop_max" /\ res.outcome = "void" /\ CallSize = 1

(***************************************************************************)
(* Calls on an empty heap                                                  *)
(***************************************************************************)

\* the member functions whose first statement is assert(!empty())
NeedsNonEmpty ==
    {"top", "min", "pop", "replace_top",
     "max", "pop_min", "pop_max", "replace_min", "replace_max"}

EmptyCallStep ==
    (CallEmpty /\ op' \in NeedsNonEmpty) =>
        /\ res'.outcome = "assert_failed"
        /\ bh1' = bh1
        /\ ih1' = ih1

\* C12: with assertions enabled, top/min/pop/replace_top on an empty
\* BinaryHeap and min/max/pop_min/pop_max/replace_min/replace_max on an empty
\* IntervalHeap end in the assertion failure before any element is read or
\* written: no value is returned and the heap stays as it was.
C12_EmptyPrecondition == [][EmptyCallStep]_vars

\* pop_max was called on an empty IntervalHeap and the assertion failed
C12_Witness ==
    cls = "IntervalHeap" /\ op = "pop_max" /\ res.outcome = "assert_failed" /\ IH_empty(ih1)

(***************************************************************************)
(* IntervalHeap: nesting of the intervals of a node and its parent node    *)
(***************************************************************************)

\* the interval of node k: its min slot and its max slot
NodeMin(d, k) == At(d, 2 * k)
NodeMax(d, k) == At(d, MaxSlot(d, k))
ParentNode(k) == (k - 1) \div 2

\* the interval of node k contains the interval of its parent node
ContainsParent(h, k) ==
    /\ ~Comp(h.comp, NodeMin(h.data, ParentNode(k)), NodeMin(h.data, k))
    /\ ~Comp(h.comp, NodeMax(h.data, k), NodeMax(h.data, ParentNode(k)))

\* the interval of node k lies within the interval of its parent node
WithinParent(h, k) ==
    /\ ~Comp(h.comp, NodeMin(h.data, k), NodeMin(h.data, ParentNode(k)))
    /\ ~Comp(h.comp, NodeMax(h.data, ParentNode(k)), NodeMax(h.data, k))

\* C13 as stated: in every reachable state every non-root node's interval
\* contains its parent node's interval (the node's min does not compare
\* greater than the parent's min, its max does not compare less than the
\* parent's max).  The code keeps the opposite inclusion.
C13_NodeContainsParent ==
    \A h \in {ih1, ih2} : \A k \in 1..(Nodes(h.data) - 1) : ContainsParent(h, k)

\* C13, amended: in every reachable state every non-root node's interval
\* lies within its parent node's interval (the node's min does not compare
\* less than the parent's min, its max does not compare greater than the
\* parent's max).
C13_NodeWithinParent ==
    \A h \in {ih1, ih2} : \A k \in 1..(Nodes(h.data) - 1) : WithinParent(h, k)

\* after a push, a full second node strictly inside the root's interval
C13_Witness ==
    /\ op = "push"
    /\ ih1.comp = "less"
    /\ IH_size(ih1) >= 4
    /\ At(ih1.data, 0) < At(ih1.data, 2)
    /\ At(ih1.data, 3) < At(ih1.data, 1)

(***************************************************************************)
(* BinaryHeap with the reversed comparator                                 *)
(***************************************************************************)

\* while (!q.empty()) { q.top(); q.pop(); }: the elements in the order they
\* come out
RECURSIVE BH_drain(_)
BH_drain(h) == IF BH_empty(h) THEN << >> ELSE << BH_top(h) >> \o BH_drain(BH_pop(h))

\* the largest element of a non-empty sequence
SeqMax(d) == CHOOSE x \in {d[i] : i \in DOMAIN d} : \A i \in DOMAIN d : d[i] <= x

\* the same heap seen through the order-reversing map v |-> MaxVal + 1 - v:
\* the elements are reflected and the comparator is the opposite one
MirrorVal(v) == MaxVal + 1 - v
MirrorSeq(d) == [i \in DOMAIN d |-> MirrorVal(d[i])]
Mirror(h) ==
    [data |-> MirrorSeq(h.data), comp |-> IF h.comp = "less" THEN "greater" ELSE "less"]

\* every operation commutes with the reflection: the layout it produces
\* depends on the elements only through the comparator
MirrorRouting(h) ==
    /\ Mirror(BinaryHeap(h.comp, h.data)) = BinaryHeap(Mirror(h).comp, MirrorSeq(h.data))
    /\ \A v \in Values : Mirror(BH_push(h, v)) = BH_push(Mirror(h), MirrorVal(v))
    /\ ~BH_empty(h) =>
          /\ Mirror(BH_pop(h)) = BH_pop(Mirror(h))
          /\ \A v \in Values :
                Mirror(BH_replace_top(h, v)) = BH_replace_top(Mirror(h), MirrorVal(v))

\* C14: a BinaryHeap built with the reversed comparator (greater-than), after
\* construction and after any push, pop and replace_top, has the maximum of
\* its multiset at top(), gives its elements in non-increasing order under
\* repeated pop(), and lays its elements out exactly as the natural-order
\* heap lays out the reflected elements.
C14_ComparatorRouting ==
    (cls = "BinaryHeap" /\ bh1.comp = "greater") =>
        /\ ~BH_empty(bh1) => BH_top(bh1) = SeqMax(bh1.data)
        /\ BH_drain(bh1) = Reverse(MultisetOf(bh1.data))
        /\ MirrorRouting(bh1)

\* a max-heap of at least six elements with three distinct values, just
\* after replace_top
C14_Witness ==
    /\ cls = "BinaryHeap" /\ bh1.comp = "greater" /\ op = "replace_top"
    /\ BH_size(bh1) >= 6
    /\ BH_top(bh1) = MaxVal
    /\ {bh1.data[i] : i \in DOMAIN bh1.data} = Values

(***************************************************************************)
(* swap                                                                    *)
(***************************************************************************)

\* the object is a valid heap of its class
ValidHeap(h) == IF cls = "BinaryHeap" THEN BinaryHeapInvariant(h) ELSE IntervalHeapInvariant(h)

\* swapping a and b twice gives back a and b, by the member function and by
\* the free function
SwapTwiceRestores ==
    LET Swapped(x, y) == IF cls = "BinaryHeap" THEN BH_swap(x, y) ELSE IH_swap(x, y)
        once  == Swapped(HeapA, HeapB)
        twice == Swapped(once.self, once.other)
    IN  /\ once.self = HeapB /\ once.other = HeapA
        /\ twice.self = HeapA /\ twice.other = HeapB

SwapStep ==
    /\ op' \in {"swap", "swap_free"} => (HeapA' = HeapB /\ HeapB' = HeapA)
    /\ op' \in {"push_a", "pop_a"} => HeapB' = HeapB
    /\ op' \in {"push_b", "pop_b"} => HeapA' = HeapA

\* C15: on either heap type, swap (member or free function) leaves a with
\* exactly b's former backing sequence and comparator and b with a's; a later
\* mutation of one leaves the other as it was; swapping twice restores both;
\* and with an empty or moved-from operand both heaps stay valid heaps.
C15_Swap ==
    /\ [](ValidHeap(HeapA) /\ ValidHeap(HeapB) /\ SwapTwiceRestores)
    /\ [][SwapStep]_vars

\* an empty a has just been swapped with a b of three elements that uses the
\* other comparator: a now holds the three elements, b is empty
C15_Witness ==
    /\ op = "swap"
    /\ Len(HeapB.data) = 0
    /\ Len(HeapA.data) = 3
    /\ HeapA.comp # HeapB.comp

(***************************************************************************)
(* IntervalHeap of one element: min() and max() are the same slot          *)
(***************************************************************************)

\* where min() and max() read from
SlotsOfMinMax ==
    cls = "IntervalHeap" =>
        /\ IH_size(ih1) = 1 =>
              /\ IH_min(ih1) = At(ih1.data, 0)
              /\ IH_max(ih1) = At(ih1.data, 0)
        /\ IH_size(ih1) > 1 =>
              /\ IH_min(ih1) = At(ih1.data, 0)
              /\ IH_max(ih1) = At(ih1.data, 1)

\* how a one-element heap comes about, and what a query on it returns
SingleStep ==
    (cls = "IntervalHeap" /\ IH_size(ih1') = 1) =>
        /\ op' \in {"push", "emplace"} => IH_empty(ih1)
        /\ op' = "pop_min" => (IH_size(ih1) = 2 /\ At(ih1'.data, 0) = IH_max(ih1))
        /\ op' = "pop_max" => (IH_size(ih1) = 2 /\ At(ih1'.data, 0) = IH_min(ih1))
        /\ op' \in {"replace_min", "replace_max"} => IH_size(ih1) = 1
        /\ op' \in {"min", "max"} =>
              (res'.outcome = "value" /\ res'.value = At(ih1.data, 0) /\ ih1' = ih1)

\* C16: an IntervalHeap that holds exactly one element, whether after a push
\* onto the empty heap, a pop_min or pop_max from two elements or a
\* replace_min or replace_max on one element, returns that element from both
\* min() and max(), read from slot 0; with more than one element max() is
\* read from slot 1.
C16_SingleElement == []SlotsOfMinMax /\ [][SingleStep]_vars

\* max() has just been asked of a one-element heap
C16_Witness ==
    /\ cls = "IntervalHeap" /\ op = "max" /\ IH_size(ih1) = 1
    /\ res.outcome = "value" /\ res.value = At(ih1.data, 0)

(***************************************************************************)
(* The run on <<5, 3, 8, 1, 9, 2>>                                          *)
(***************************************************************************)

\* C17: an IntervalHeap constructed from [5,3,8,1,9,2] with the natural order
\* has min() == 1 and max() == 9; after pop_max(), max() == 8; after then
\* replace_min(10), min() == 2 and the value 1 occurs nowhere in the backing
\* sequence.
C17_Scenario ==
    a = ScenarioInput =>
        /\ op = "construct" => (IH_min(ih1) = 1 /\ IH_max(ih1) = 9)
        /\ op = "pop_max" => IH_max(ih1) = 8
        /\ op = "replace_min" =>
              (IH_min(ih1) = 2 /\ \A i \in DOMAIN ih1.data : ih1.data[i] # 1)

\* the end of the run on that input: 10 has replaced 1
C17_Witness ==
    /\ a = ScenarioInput /\ op = "replace_min"
    /\ IH_size(ih1) = 5
    /\ \E i \in DOMAIN ih1.data : ih1.data[i] = 10

(***************************************************************************)
(* Termination                                                             *)
(***************************************************************************)

\* every loop of the last operation ended within its budget, every
\* bubble-up pass lowered its index and every bubble-down or hole-moving
\* pass raised it
LoopsEnd == res.loops.ok /\ res.loops.mono

\* C18 as stated: every public operation of both heaps completes; each
\* bubble-up loop strictly decreases its index, each bubble-down and
\* hole-moving loop strictly increases it, and each heapify loop counter runs
\* down past 0.  The first for statement of IntervalHeap::heapify counts up.
C18_TerminationCountersDown == LoopsEnd /\ res.loops.cntDown

\* C18, amended: every public operation of both heaps completes; each
\* bubble-up loop strictly decreases its index, each bubble-down and
\* hole-moving loop strictly increases it, the counter of the node-balancing
\* loop of IntervalHeap::heapify runs up in steps of 2 to size - 1 and the
\* counter of every other heapify loop runs down past 0.
C18_Termination == LoopsEnd /\ res.loops.cntOwn

\* an IntervalHeap has been constructed from seven or more elements: the
\* balancing loop counted up, the second loop counted down
C18_Witness ==
    /\ cls = "IntervalHeap" /\ op = "construct"
    /\ IH_size(ih1) >= 7
    /\ res.loops.cntOwn
    /\ ~res.loops.cntDown

(***************************************************************************)
(* BinaryHeap::pop: the way of the hole                                    *)
(***************************************************************************)

\* the way of the hole through d, read off d as it was before pop: from
\* index i to the smaller child, the right one only when it compares
\* strictly before the left one, down to a slot without children
RECURSIVE HolePath(_, _, _)
HolePath(c, d, i) ==
    LET l == 2 * i + 1
        r == 2 * i + 2
    IN  IF l >= Len(d) THEN << i >>
        ELSE IF r < Len(d) /\ Comp(c, At(d, r), At(d, l))
             THEN << i >> \o HolePath(c, d, r)
             ELSE << i >> \o HolePath(c, d, l)

\* d after each element on the path has moved one place up the path
ShiftedAlong(d, path) ==
    [k \in DOMAIN d |->
        IF \E j \in 1..(Len(path) - 1) : path[j] = k - 1
        THEN LET j == CHOOSE j \in 1..(Len(path) - 1) : path[j] = k - 1
             IN  At(d, path[j + 1])
        ELSE d[k]]

\* the multiset s without one occurrence of v
RECURSIVE WithoutOne(_, _)
WithoutOne(s, v) ==
    IF s = << >> THEN << >>
    ELSE IF Head(s) = v THEN Tail(s)
    ELSE << Head(s) >> \o WithoutOne(Tail(s), v)

PopHole(h) ==
    LET n == Len(h.data)
        path == HolePath(h.comp, h.data, 0)
        leaf == path[Len(path)]
        m == BH_move_hole_down(h.comp, h.data, ROOT, NoReport)
        p == BH_pop(h)
    IN  /\ m.idx = leaf
        /\ m.data = ShiftedAlong(h.data, path)
        /\ leaf = n - 1 => p.data = PopBack(m.data)
        /\ leaf # n - 1 =>
              p.data = BH_bubble_up(h.comp, PopBack(Put(m.data, leaf, At(h.data, n - 1))),
                                    leaf, NoReport).data
        /\ BinaryHeapInvariant(p)
        /\ Len(p.data) = n - 1
        /\ MultisetOf(p.data) = WithoutOne(MultisetOf(h.data), BH_top(h))

\* C19: pop on a valid BinaryHeap of n >= 1 elements moves the hole from
\* index 0 down, at each level taking the smaller child (the right one only
\* when it compares strictly less than the left), to a leaf h; with h == n-1
\* the sequence is only shortened, otherwise the former last element goes to
\* h and is bubbled up from there; either way the result is a valid heap of
\* n-1 elements holding the old multiset less one occurrence of the old
\* minimum.
C19_PopHolePropagation ==
    (cls = "BinaryHeap" /\ ~BH_empty(bh1)) => PopHole(bh1)

\* a heap left by pop on which the next pop ends its hole away from the last
\* slot and the element put there bubbles up
C19_Witness ==
    /\ cls = "BinaryHeap" /\ op = "pop" /\ BH_size(bh1) >= 6
    /\ LET m == BH_move_hole_down(bh1.comp, bh1.data, ROOT, NoReport)
       IN  /\ m.idx # BH_size(bh1) - 1
           /\ BH_pop(bh1).data # PopBack(Put(m.data, m.idx, Back(m.data)))

(***************************************************************************)
(* IntervalHeap::pop_min: the backing sequence when bubble_down_min starts *)
(***************************************************************************)

PopMinStaging(h) ==
    LET d == h.data
        n == Len(d)
        s == IH_pop_min_stage(d)
    IN  /\ IH_pop_min(h).data = IH_bubble_down_min(h.comp, s, ROOT, NoReport).data
        /\ Len(s) = n - 1
        /\ n % 2 = 1 => At(s, 0) = At(d, n - 1)
        /\ (n % 2 = 0 /\ n >= 4) => (At(s, 0) = At(d, n - 2) /\ At(s, n - 2) = At(d, n - 1))
        /\ n = 2 => s = << At(d, 1) >>
        /\ Len(s) >= 2 => ~Comp(h.comp, At(s, 1), At(s, 0))
        /\ MultisetOf(s) = WithoutOne(MultisetOf(d), IH_min(h))

\* C20: pop_min on a valid IntervalHeap of n >= 2 elements, seen just before
\* bubble_down_min starts: the length is n-1; for odd n slot 0 holds the
\* former last element; for even n >= 4 slot 0 holds the former min of the
\* last node (old index n-2) and slot n-2 its former max (old index n-1); for
\* n == 2 the one element left is the former max; the root node satisfies the
\* interval property and nothing but the old minimum is lost.
C20_PopMinStaging ==
    (cls = "IntervalHeap" /\ IH_size(ih1) >= 2) => PopMinStaging(ih1)

\* a heap left by pop_min with an even number (>= 4) of elements whose last
\* node has two different elements
C20_Witness ==
    /\ cls = "IntervalHeap" /\ op = "pop_min"
    /\ IH_size(ih1) >= 4 /\ IH_size(ih1) % 2 = 0
    /\ Back(ih1.data) # At(ih1.data, IH_size(ih1) - 2)
(***************************************************************************)
(* IntervalHeap::heapify on an arbitrary sequence                          *)
(***************************************************************************)

\* what heapify leaves of the sequence d under the comparator c: the same
\* elements, ordered as an interval heap; and the second loop, which visits
\* the min slots (size - 1) / 4 * 2, ..., 2, 0, meets every node that has a
\* child node
Heapified(c, d) ==
    LET h == IntervalHeap(c, d)
        n == Len(d)
    IN  /\ MultisetOf(h.data) = MultisetOf(d)
        /\ IntervalHeapInvariant(h)
        /\ \A k \in 0..(Nodes(d) - 1) :
              IH_get_left(2 * k) < n => 2 * k <= ((n - 1) \div 4) * 2

\* C21: IntervalHeap::heapify on an arbitrary sequence of any length (0, 1,
\* 2, odd and even lengths >= 3, duplicates allowed) leaves a permutation of
\* the input that has the interval property in every full node, the min-heap
\* property over the min slots and the max-heap property over the max slots
\* (the trailing singleton counted as its node's max); the bottom-up pass
\* starting at index (size-1)/4*2 covers every node that has a child.
C21_HeapifyArbitrary ==
    /\ (kind = "pop_min" /\ op = "construct") => \A c \in Comparators : Heapified(c, a)
    /\ (kind \in {"pop_min", "pop_max"} /\ op = "construct") =>
          (MultisetOf(q.data) = MultisetOf(a) /\ IntervalHeapInvariant(q))

\* an IntervalHeap has been constructed from seven elements with a duplicate,
\* given in descending order: three levels, a trailing singleton, and
\* heapify had to move elements
C21_Witness ==
    /\ kind = "pop_min" /\ op = "construct"
    /\ Len(a) = 7 /\ IH_size(q) = 7
    /\ \E i \in 1..6 : a[i] = a[i + 1]
    /\ \A i \in 1..6 : a[i] >= a[i + 1]
    /\ a[1] > a[7]
    /\ q.data # a

(***************************************************************************)
(* The trailing singleton on the max chain                                 *)
(***************************************************************************)

\* m is an element that no element of d comes after in the order of c
IsLargest(c, d, m) == \A i \in DOMAIN d : ~Comp(c, m, d[i])

\* bubble_down_max started at the parent node of the trailing singleton,
\* whose max slot holds v: when the singleton is the child the loop picks
\* and v comes before it, the singleton's element goes up into that max slot
\* and v takes the lone slot
TailCandidate(h, v) ==
    LET d == h.data
        n == Len(d)
        c == h.comp
        p == IH_get_parent(n - 1)
        left == IH_get_left(p)
        picked == n - 1 = left \/ Comp(c, At(d, left + 1), At(d, n - 1))
        e == Put(d, p + 1, v)
        b == IH_bubble_down_max(c, e, p + 1, NoReport).data
    IN  (picked /\ Comp(c, v, At(d, n - 1)) /\ ~Comp(c, v, At(d, p))) =>
            (At(b, p + 1) = At(d, n - 1) /\ At(b, n - 1) = v)

TailEligible(h) ==
    LET d == h.data
        n == Len(d)
        c == h.comp
    IN  /\ n % 2 = 1 =>
              \A v \in Values :
                  LET p == IH_replace_max(h, v)
                  IN  /\ IntervalHeapInvariant(p)
                      /\ IsLargest(c, p.data, IH_max(p))
                      /\ MultisetOf(p.data) =
                             SortedInsert(WithoutOne(MultisetOf(d), IH_max(h)), v)
                      /\ n >= 3 => TailCandidate(h, v)
        /\ (n % 2 = 0 /\ n >= 2) =>
              LET p == IH_pop_max(h)
              IN  /\ IH_size(p) % 2 = 1
                  /\ IntervalHeapInvariant(p)
                  /\ IsLargest(c, p.data, IH_max(p))
                  /\ MultisetOf(p.data) = WithoutOne(MultisetOf(d), IH_max(h))

\* C22: in bubble_down_max (used by pop_max, replace_max and heapify) a child
\* node that is the trailing singleton contributes its lone min-slot element
\* as that node's max candidate; so for every valid odd-size heap and every
\* value v, after replace_max(v), and likewise after a pop_max that leaves an
\* odd size, max() equals the largest remaining element, also when that
\* element was stored in the lone tail slot, and the invariant still holds.
C22_LoneTailEligible ==
    (cls = "IntervalHeap" /\ ~IH_empty(ih1)) => TailEligible(ih1)

\* a five-element heap left by replace_max whose lone tail element comes
\* after the max of its sibling node: the next replace_max(v) with a v that
\* comes before the tail element takes the new maximum out of the lone tail
\* slot and leaves v there
C22_Witness ==
    /\ cls = "IntervalHeap" /\ op = "replace_max" /\ IH_size(ih1) = 5
    /\ Comp(ih1.comp, At(ih1.data, 3), At(ih1.data, 4))
    /\ \E v \in Values :
          /\ Comp(ih1.comp, v, At(ih1.data, 4))
          /\ IH_max(IH_replace_max(ih1, v)) = At(ih1.data, 4)
          /\ Back(IH_replace_max(ih1, v).data) = v

\* C23: index safety on both heaps: in every operation on every reachable
\* state, every read or write of the backing sequence uses an index in
\* [0, size); the wrapped-around unsigned results of get_parent for index 0
\* (BinaryHeap) and for indexes 0 and 1 (IntervalHeap), which lie beyond every
\* size, are hence never used as an index, the child1/child2 candidates of
\* bubble_down_max are only dereferenced when < size, and heapify on
\* sequences of length 0, 1 and 2 makes no out-of-range access.
C23_IndexSafety ==
    /\ res.loops.inRange
    /\ res.outcome # "undefined"
    /\ \A n \in 0..MaxLen :
          /\ BH_get_parent(ROOT) >= n
          /\ IH_get_parent(ROOT) >= n
          /\ IH_get_parent(ROOT + 1) >= n
    /\ (op = "construct" /\ BH_size(bh1) + IH_size(ih1) <= 2) =>
          /\ BH_heapify(bh1.comp, bh1.data).r.inRange
          /\ IH_heapify(ih1.comp, ih1.data).r.inRange

\* a six-element interval heap left by push on which the next push(v) lifts v
\* from slot 6 through slot 2 into slot 0, where get_parent wraps around and
\* the loop ends without looking at the parent
C23_Witness ==
    /\ cls = "IntervalHeap" /\ op = "push" /\ IH_size(ih1) = 6
    /\ res.loops.inRange
    /\ \E v \in Values :
          LET u == IH_bubble_up(ih1.comp, Append(ih1.data, v), 6, NoLoops)
          IN  /\ Comp(ih1.comp, v, At(ih1.data, ROOT))
              /\ At(u.data, ROOT) = v
              /\ At(u.data, 2) = At(ih1.data, ROOT)
              /\ u.r.inRange
              /\ IH_get_parent(ROOT) >= 7

(***************************************************************************)
(* Properties of SpecShared.                                               *)
(***************************************************************************)
\* the bytes [lo, hi) of the n elements of the given size behind pointer p,
\* in unbounded arithmetic
ByteRange(p, n, size) == [lo |-> p[1], hi |-> p[1] + size * n]

Disjoint(r, s) == r.hi <= s.lo \/ s.hi <= r.lo

\* the three arrays of sh lie in the buffer, apart from each other, and col
\* and val begin at aligned offsets
LaidOut(sh) ==
    LET r == ByteRange(sh.row, sh.nrows, sv.abi.int.size)
        c == ByteRange(sh.col, sh.ncols, sv.abi.int.size)
        v == ByteRange(sh.val, sh.nvals, sv.abi.double.size)
    IN  /\ \A x \in {r, c, v} : 0 <= x.lo /\ x.hi <= Len(sv.mem)
        /\ Disjoint(r, c) /\ Disjoint(r, v) /\ Disjoint(c, v)
        /\ c.lo % sv.abi.int.align = 0
        /\ v.lo % sv.abi.double.align = 0

\* the asserts of test(sh): every element that the test keeps track of reads
\* as the value last written to it
ReadsBack(sh) ==
    LET Reads(p, size, expected) ==
            \A i \in 1..Len(expected) :
               /\ p[1] + size * i <= Len(sv.mem)
               /\ \A k \in 1..size :
                     sv.mem[p[1] + size * (i - 1) + k] = Bytes(expected[i], size)[k]
    IN  /\ Reads(sh.row, sv.abi.int.size, sv.row)
        /\ Reads(sh.col, sv.abi.int.size, sv.col)
        /\ Reads(sh.val, sv.abi.double.size, sv.val)

\* the object, sh1 or sh2, that holds the buffer
Owner == IF sv.sh1.row # << >> THEN sv.sh1 ELSE sv.sh2

\* sizeof(int) * nrows, the padding and the further sizes add up without
\* passing the largest size_t
Fits(sh) ==
    LET r == sv.abi.int.size * sh.nrows
        c == sv.abi.int.size * sh.ncols
        v == sv.abi.double.size * sh.nvals
    IN  /\ r < SizeWrap
        /\ c < SizeWrap - r
        /\ v < SizeWrap - r - c - sv.abi.double.align

\* C24: SharedVector layout: for all nrows, ncols, nvals, the byte ranges of
\* row[0..nrows), col[0..ncols) and val[0..nvals) lie inside the single
\* buffer of total bytes, are pairwise disjoint, and col and val start at
\* offsets that are multiples of alignof(int) and alignof(double); hence a
\* write to any element of one array changes no other element of any of the
\* three arrays, also after move construction, move assignment and swap.
C24_Layout ==
    /\ sv.fault = "none"
    /\ LaidOut(Owner)
    /\ ReadsBack(Owner)

\* the same for the sizes that fit: whenever the byte sizes of the three
\* arrays and the padding add up to less than 2^64 (here SizeWrap), the
\* layout and the independence of the elements hold in every state
SharedLayoutWhenFits ==
    Fits(Owner) => C24_Layout

\* nrows is so large that sizeof(int) * nrows wraps around to sizeof(int), so
\* row[1] lies on the bytes of col[0]: the process has survived the fill_n
\* beyond the buffer, and after the write row[1] = 4 the element col[0] no
\* longer reads as the -4 it was filled with
C24_Witness ==
    /\ op = "write" /\ sv.fault = "overrun"
    /\ Owner.nrows = (SizeWrap \div sv.abi.int.size) + 1
    /\ Owner.ncols = 1
    /\ Owner.col = << sv.abi.int.size >>
    /\ sv.row[2] = << 4 >> /\ sv.col[1] = << -4 >>
    /\ ~ReadsBack(Owner)

=============================================================================
